---- MODULE Spec2Model ----
(***************************************************************************)
(* Model of the retrieval-decision and conversation-orchestration core of  *)
(* MoneyMong_BE: app/core/mretriever.py, context_builder.py,               *)
(* graph_nodes.py, conversation_graph.py, memory.py, llm.py.               *)
(*                                                                         *)
(* Conventions                                                             *)
(*   - a Python str is a sequence of one-character strings; a fixed piece  *)
(*     of template text (a prompt header) is one element of the sequence;  *)
(*   - a similarity (a float in the source) is an integer number of        *)
(*     hundredths: 0.7 is 70, 0.9 is 90;                                   *)
(*   - a dict / TypedDict(total=False) is a function whose DOMAIN is the   *)
(*     set of keys present;                                                *)
(*   - None is the value None; `if x:` on an Optional id is TruthyId(x).   *)
(***************************************************************************)
EXTENDS Integers, Sequences, FiniteSets, TLC

VARIABLES
    fn_args,    \* arguments of the pure-function call under test
    fn_ret,     \* results returned so far for fn_args
    ckpt,       \* checkpoint store: thread id -> latest checkpoint
    inv,        \* the run_conversation call in flight (or Idle)
    outcome,    \* what the last finished run_conversation call produced
    hist,       \* bookkeeping of finished work per thread
    reqs,       \* the send_message requests: not started, in flight, ended
    db,         \* the committed rows of the relational database
    memory,     \* the globals of app/core/memory.py and the objects made
    callers     \* the callers of the checkpoint system's functions

vars == <<fn_args, fn_ret, ckpt, inv, outcome, hist, reqs, db, memory, callers>>

(***************************************************************************)
(* Bounds                                                                  *)
(***************************************************************************)
MaxChunks == 3      \* longest chunk list handed to the pure functions
MaxLength == 7      \* largest max_length handed to build_context
MaxTurns == 2       \* run_conversation calls per behaviour
MaxPieces == 4      \* pieces of a follow-up provider output
MaxNum == 4         \* largest num_questions handed to the parser
MaxHistoryTurns == 4    \* run_conversation calls of a long thread
MaxContext == 2     \* longest context handed to the prompt selection
MaxTopK == 4        \* largest top_k handed to the retriever

(***************************************************************************)
(* Python values                                                           *)
(***************************************************************************)
None == "None"
EmptyStr == <<>>
EmptyDict == <<>>

\* `if x:` for an Optional id (None and "" are falsy)
TruthyId(x) == x # None /\ x # ""

\* `if s:` for a str or a list
TruthySeq(s) == s # <<>>

Min(a, b) == IF a <= b THEN a ELSE b
Max(a, b) == IF a >= b THEN a ELSE b

Whitespace == {" ", "\n"}

RECURSIVE lstrip(_)
lstrip(s) ==
    IF s = <<>> THEN <<>>
    ELSE IF Head(s) \in Whitespace THEN lstrip(Tail(s)) ELSE s

RECURSIVE rstrip(_)
rstrip(s) ==
    IF s = <<>> THEN <<>>
    ELSE IF s[Len(s)] \in Whitespace THEN rstrip(SubSeq(s, 1, Len(s) - 1)) ELSE s

\* str.strip()
strip(s) == rstrip(lstrip(s))

\* s[:n], negative n counting from the end as Python does
SlicePrefix(s, n) ==
    IF n >= 0 THEN SubSeq(s, 1, Min(n, Len(s)))
    ELSE SubSeq(s, 1, Max(Len(s) + n, 0))

\* s[-n:] for n > 0
SliceSuffix(s, n) == SubSeq(s, Max(Len(s) - n, 0) + 1, Len(s))

\* sep.join(parts)
RECURSIVE join(_, _)
join(sep, parts) ==
    IF parts = <<>> THEN <<>>
    ELSE IF Len(parts) = 1 THEN parts[1]
    ELSE parts[1] \o sep \o join(sep, Tail(parts))

\* max(list) of a non-empty list of numbers
RECURSIVE max(_)
max(xs) ==
    IF Len(xs) = 1 THEN xs[1] ELSE Max(xs[1], max(Tail(xs)))

\* dict.get(key, default)
get(d, key, default) == IF key \in DOMAIN d THEN d[key] ELSE default

\* the keys of u written over d
Update(d, u) ==
    [k \in DOMAIN d \cup DOMAIN u |-> IF k \in DOMAIN u THEN u[k] ELSE d[k]]

(***************************************************************************)
(* app/core/mretriever.py : should_use_chunks                              *)
(***************************************************************************)
similarity_threshold == 70

similarities(chunks) == [i \in 1..Len(chunks) |-> chunks[i].similarity]

should_use_chunks_reordered(document_id, chunks, threshold) ==
    IF chunks = <<>>
    THEN [use_chunks |-> FALSE, max_similarity |-> 0,
          reason |-> "no_relevant_chunks"]
    ELSE IF TruthyId(document_id)
    THEN [use_chunks |-> TRUE, max_similarity |-> max(similarities(chunks)),
          reason |-> "document_based_conversation"]
    ELSE IF max(similarities(chunks)) >= threshold
    THEN [use_chunks |-> TRUE, max_similarity |-> max(similarities(chunks)),
          reason |-> "relevant_chunks_found"]
    ELSE [use_chunks |-> FALSE, max_similarity |-> max(similarities(chunks)),
          reason |-> "low_similarity"]

should_use_chunks_strict(document_id, chunks, threshold) ==
    IF TruthyId(document_id)
    THEN [use_chunks |-> TRUE,
          max_similarity |->
              IF chunks # <<>> THEN max(similarities(chunks)) ELSE 0,
          reason |-> "document_based_conversation"]
    ELSE IF chunks = <<>>
    THEN [use_chunks |-> FALSE, max_similarity |-> 0,
          reason |-> "no_relevant_chunks"]
    ELSE IF max(similarities(chunks)) > threshold
    THEN [use_chunks |-> TRUE, max_similarity |-> max(similarities(chunks)),
          reason |-> "relevant_chunks_found"]
    ELSE [use_chunks |-> FALSE, max_similarity |-> max(similarities(chunks)),
          reason |-> "low_similarity"]

should_use_chunks(document_id, chunks, threshold) ==
    IF TruthyId(document_id)
    THEN [use_chunks |-> TRUE,
          max_similarity |->
              IF chunks # <<>> THEN max(similarities(chunks)) ELSE 0,
          reason |-> "document_based_conversation"]
    ELSE IF chunks = <<>>
    THEN [use_chunks |-> FALSE, max_similarity |-> 0,
          reason |-> "no_relevant_chunks"]
    ELSE IF max(similarities(chunks)) >= threshold
    THEN [use_chunks |-> TRUE, max_similarity |-> max(similarities(chunks)),
          reason |-> "relevant_chunks_found"]
    ELSE [use_chunks |-> FALSE, max_similarity |-> max(similarities(chunks)),
          reason |-> "low_similarity"]

(***************************************************************************)
(* app/core/context_builder.py : build_context                             *)
(***************************************************************************)
default_max_length == 700

contents(chunks) == [i \in 1..Len(chunks) |-> chunks[i].content]

build_context_untruncated(chunks, max_length) ==
    join(<<"\n", "\n">>, contents(chunks))

build_context(chunks, max_length) ==
    SlicePrefix(join(<<"\n", "\n">>, contents(chunks)), max_length)

(***************************************************************************)
(* Inputs of the conversation pipeline                                     *)
(***************************************************************************)
Threads == {"c1"}                           \* conversation_id / thread_id
DocumentIds == {None, "d1", "d2"}           \* d2 has no indexed chunk
Questions == { <<"q", "1">>, <<"q", "2">> }
UserLevels == {"beginner"}

\* rows of the document_chunks table
document_chunks ==
    { [id |-> "k1", document_id |-> "d1", chunk_index |-> 0,
       content |-> <<"a", "b">>],
      [id |-> "k2", document_id |-> "d1", chunk_index |-> 1,
       content |-> <<"c">>],
      [id |-> "k3", document_id |-> "d1", chunk_index |-> 2,
       content |-> <<" ">>],
      [id |-> "k4", document_id |-> "d1", chunk_index |-> 3,
       content |-> <<"d">>],
      [id |-> "k5", document_id |-> "d3", chunk_index |-> 0,
       content |-> <<"e">>],
      [id |-> "k6", document_id |-> "d3", chunk_index |-> 1,
       content |-> <<"f">>] }

(***************************************************************************)
(* app/core/embedding.py                                                   *)
(***************************************************************************)
get_query_embedding(text) == [embedding_of |-> text]

(***************************************************************************)
(* app/core/mretriever.py : retrieve_chunks_for_document                   *)
(***************************************************************************)
\* embedding <=> query_embedding, in hundredths
distance(row, embedding) ==
    IF embedding.embedding_of = <<"q", "1">>
    THEN CASE row.id = "k1" -> 10
           [] row.id = "k2" -> 60
           [] row.id = "k3" -> 65
           [] row.id = "k4" -> 80
           [] OTHER -> 5
    ELSE CASE row.id = "k1" -> 50
           [] row.id = "k2" -> 55
           [] row.id = "k3" -> 70
           [] row.id = "k4" -> 90
           [] OTHER -> 20

\* one row of the SELECT: 1 - distance AS similarity
selected(row, embedding) ==
    [id |-> row.id, document_id |-> row.document_id,
     chunk_index |-> row.chunk_index, content |-> row.content,
     similarity |-> 100 - distance(row, embedding)]

retrieve_chunks_for_document_unfiltered(embedding, document_id, top_k) ==
    LET rows == document_chunks
        n == Min(top_k, Cardinality(rows))
    IN { [i \in 1..n |-> selected(f[i], embedding)] :
           f \in { g \in [1..n -> rows] :
                     /\ \A i, j \in 1..n : i # j => g[i] # g[j]
                     /\ \A i, j \in 1..n :
                          i < j => distance(g[i], embedding)
                                     <= distance(g[j], embedding)
                     /\ \A r \in rows :
                          (\A i \in 1..n : g[i] # r) =>
                              \A i \in 1..n :
                                  distance(g[i], embedding)
                                    <= distance(r, embedding) } }

\* the row sequences the query may return: WHERE document_id (when given),
\* ORDER BY distance, LIMIT top_k; the order among equal distances is the
\* database's choice
retrieve_chunks_for_document(embedding, document_id, top_k) ==
    LET rows == IF TruthyId(document_id)
                THEN {r \in document_chunks : r.document_id = document_id}
                ELSE document_chunks
        n == Min(top_k, Cardinality(rows))
    IN { [i \in 1..n |-> selected(f[i], embedding)] :
           f \in { g \in [1..n -> rows] :
                     /\ \A i, j \in 1..n : i # j => g[i] # g[j]
                     /\ \A i, j \in 1..n :
                          i < j => distance(g[i], embedding)
                                     <= distance(g[j], embedding)
                     /\ \A r \in rows :
                          (\A i \in 1..n : g[i] # r) =>
                              \A i \in 1..n :
                                  distance(g[i], embedding)
                                    <= distance(r, embedding) } }

(***************************************************************************)
(* app/core/graph_nodes.py : rag_retrieve_node                             *)
(***************************************************************************)
top_k == 3
summary_length == 200

\* the chunk lists step 2 of the node may obtain
retrieved(state) ==
    IF TruthyId(get(state, "document_id", None))
    THEN retrieve_chunks_for_document(get_query_embedding(state.question),
                                      state.document_id, top_k)
    ELSE { <<>> }

context_of(decision, chunks) ==
    IF decision.use_chunks
    THEN build_context(chunks, default_max_length) ELSE EmptyStr

rag_retrieve_update_keeps_context(state, chunks, decision) ==
    LET fields ==
          [query_embedding |-> get_query_embedding(state.question),
           retrieved_chunks |->
               [i \in 1..Len(chunks) |->
                   [id |-> chunks[i].id,
                    content |-> SlicePrefix(chunks[i].content, summary_length),
                    similarity |-> chunks[i].similarity]],
           use_chunks |-> decision.use_chunks,
           decision_reason |-> decision.reason,
           max_similarity |-> decision.max_similarity]
    IN IF decision.use_chunks
       THEN Update(fields, [context |-> context_of(decision, chunks)])
       ELSE fields

rag_retrieve_update_partial(state, chunks, decision) ==
    LET fields ==
          [query_embedding |-> get_query_embedding(state.question),
           context |-> context_of(decision, chunks),
           use_chunks |-> decision.use_chunks,
           decision_reason |-> decision.reason,
           max_similarity |-> decision.max_similarity]
    IN IF chunks = <<>> THEN fields
       ELSE Update(fields,
              [retrieved_chunks |->
                  [i \in 1..Len(chunks) |->
                      [id |-> chunks[i].id,
                       content |-> SlicePrefix(chunks[i].content,
                                               summary_length),
                       similarity |-> chunks[i].similarity]]])

\* the state update the node returns, steps 3 and 4
rag_retrieve_update(state, chunks, decision) ==
    [query_embedding |-> get_query_embedding(state.question),
     retrieved_chunks |->
         [i \in 1..Len(chunks) |->
             [id |-> chunks[i].id,
              content |-> SlicePrefix(chunks[i].content, summary_length),
              similarity |-> chunks[i].similarity]],
     context |-> context_of(decision, chunks),
     use_chunks |-> decision.use_chunks,
     decision_reason |-> decision.reason,
     max_similarity |-> decision.max_similarity]

(***************************************************************************)
(* app/core/graph_nodes.py : llm_generate_node                             *)
(***************************************************************************)
HumanMessage(content) == [type |-> "human", content |-> content]
AIMessage(content) == [type |-> "ai", content |-> content]

\* the two fixed Korean header lines of the f-string, in English
ContextHeader == "[retrieved document information]\n"
QuestionHeader == "[current question]\n"

\* UserLevel(user_level.lower()), BEGINNER on ValueError
to_user_level(user_level) ==
    CASE user_level \in {"beginner", "Beginner", "BEGINNER"} -> "beginner"
      [] user_level \in {"intermediate", "Intermediate"} -> "intermediate"
      [] user_level \in {"advanced", "Advanced", "ADVANCED"} -> "advanced"
      [] OTHER -> "beginner"

\* step 2: the template picked for (document_id, context_exists)
get_conversation_prompt(user_level, document_id, context_exists) ==
    IF document_id # None THEN "document_grounded"
    ELSE IF context_exists THEN "general_with_context"
    ELSE "general_without_context"

\* step 4: the content of the human message sent to the generator
user_message_content(question, context) ==
    IF TruthySeq(context) /\ TruthySeq(strip(context))
    THEN <<ContextHeader>> \o context \o <<"\n", "\n", QuestionHeader>>
           \o question
    ELSE question

llm_input_untrimmed(state) ==
    LET context == get(state, "context", EmptyStr)
        document_id == get(state, "document_id", None)
    IN [prompt |-> get_conversation_prompt(
                       to_user_level(get(state, "user_level", "beginner")),
                       IF TruthyId(document_id) THEN document_id ELSE None,
                       TruthySeq(context)),
        messages |-> get(state, "messages", <<>>)
            \o <<HumanMessage(user_message_content(state.question, context))>>]

\* step 5: what chain.ainvoke receives
llm_input(state) ==
    LET context == get(state, "context", EmptyStr)
        document_id == get(state, "document_id", None)
    IN [prompt |-> get_conversation_prompt(
                       to_user_level(get(state, "user_level", "beginner")),
                       IF TruthyId(document_id) THEN document_id ELSE None,
                       TruthySeq(context) /\ TruthySeq(strip(context))),
        messages |-> get(state, "messages", <<>>)
            \o <<HumanMessage(user_message_content(state.question, context))>>]

\* the provider's raw completions and its usage metadata
LLMOutputs == { <<"a", "1">>, <<" ", "a", "2", "\n">> }
ResponseMetadata ==
    { [prompt_tokens |-> 2, completion_tokens |-> 3, total_tokens |-> 5] }

new_turn_with_context(question, sent_content, answer) ==
    <<HumanMessage(sent_content), AIMessage(answer)>>

new_turn_swapped(question, sent_content, answer) ==
    <<AIMessage(answer), HumanMessage(question)>>

\* step 7: the two messages of the turn
new_turn(question, sent_content, answer) ==
    <<HumanMessage(question), AIMessage(answer)>>

updated_messages_replaced(messages, turn) == turn

updated_messages(messages, turn) == messages \o turn

llm_generate_update(state, raw, metadata) ==
    LET answer == strip(raw)
        context == get(state, "context", EmptyStr)
    IN [answer |-> answer,
        messages |->
            updated_messages(
                get(state, "messages", <<>>),
                new_turn(state.question,
                         user_message_content(state.question, context),
                         answer)),
        model_version |-> "solar-pro2",
        token_usage |-> [prompt |-> get(metadata, "prompt_tokens", 0),
                         completion |-> get(metadata, "completion_tokens", 0),
                         total |-> get(metadata, "total_tokens", 0)]]

(***************************************************************************)
(* app/core/llm.py : generate_follow_up_questions                          *)
(***************************************************************************)
num_questions == 3
reference_context_length == 300

\* a provider output is a sequence of pieces of text, each inside a
\* <question>...</question> pair or outside any
FollowupOutputs ==
    { << [tagged |-> TRUE, text |-> <<" ", "f", "1">>],
         [tagged |-> TRUE, text |-> <<" ">>],
         [tagged |-> TRUE, text |-> <<"f", "2">>],
         [tagged |-> TRUE, text |-> <<"f", "3">>],
         [tagged |-> TRUE, text |-> <<"f", "4">>] >>,
      << [tagged |-> FALSE, text |-> <<"f", "1">>],
         [tagged |-> TRUE, text |-> <<" ", "\n">>],
         [tagged |-> FALSE, text |-> <<"f", "2">>] >> }

findall_questions_with_fallback(output) ==
    LET marked == SelectSeq(output, LAMBDA piece : piece.tagged)
        chosen == IF marked = <<>> THEN output ELSE marked
    IN [i \in 1..Len(chosen) |-> chosen[i].text]

\* re.findall(r"<question>(.*?)</question>", ...)
RECURSIVE findall_questions(_)
findall_questions(output) ==
    IF output = <<>> THEN <<>>
    ELSE (IF Head(output).tagged THEN <<Head(output).text>> ELSE <<>>)
           \o findall_questions(Tail(output))

strip_nonblank_keeps_blank(questions) ==
    [i \in 1..Len(questions) |-> strip(questions[i])]

\* [q.strip() for q in questions if q.strip()]
RECURSIVE strip_nonblank(_)
strip_nonblank(questions) ==
    IF questions = <<>> THEN <<>>
    ELSE (IF TruthySeq(strip(Head(questions)))
          THEN <<strip(Head(questions))>> ELSE <<>>)
           \o strip_nonblank(Tail(questions))

followup_input(question, answer, context, user_level) ==
    [question |-> question, answer |-> answer,
     context |-> SlicePrefix(context, reference_context_length),
     user_level |-> user_level]

generate_follow_up_questions_untruncated(output, num) ==
    strip_nonblank(findall_questions(output))

generate_follow_up_questions(output, num) ==
    SlicePrefix(strip_nonblank(findall_questions(output)), num)

(***************************************************************************)
(* app/core/conversation_graph.py : create_conversation_graph              *)
(***************************************************************************)
END == "__end__"
entry_point == "rag_retrieve"

edges_skipping_followup ==
    [rag_retrieve |-> "llm_generate", llm_generate |-> END, followup |-> END]

edges ==
    [rag_retrieve |-> "llm_generate", llm_generate |-> "followup",
     followup |-> END]

(***************************************************************************)
(* The checkpointer the graph is compiled with.  A compiled graph saves a  *)
(* checkpoint of the channel values when it has taken the input and after  *)
(* every step; a step that raises saves none.  aget_tuple returns the      *)
(* checkpoint with the greatest id of the thread.                          *)
(***************************************************************************)
aget_tuple(store, thread_id) ==
    IF thread_id \in DOMAIN store THEN store[thread_id]
    ELSE [id |-> 0, step |-> -2, source |-> "none",
          channel_values |-> EmptyDict]

aput_to_every_thread(store, thread_id, source, values) ==
    LET last == aget_tuple(store, thread_id)
    IN [t \in DOMAIN store \cup {thread_id} |->
           [id |-> last.id + 1, step |-> last.step + 1,
            source |-> source, channel_values |-> values]]

aput(store, thread_id, source, values) ==
    LET last == aget_tuple(store, thread_id)
    IN [t \in DOMAIN store \cup {thread_id} |->
           IF t = thread_id
           THEN [id |-> last.id + 1, step |-> last.step + 1,
                 source |-> source, channel_values |-> values]
           ELSE store[t]]

\* aput of a checkpoint the caller has made itself: the row is stored under
\* the checkpoint's own id, so it is the one aget_tuple returns only when the
\* thread holds no row with a greater id
aput_checkpoint(store, thread_id, checkpoint) ==
    IF checkpoint.id >= aget_tuple(store, thread_id).id
    THEN [t \in DOMAIN store \cup {thread_id} |->
             IF t = thread_id THEN checkpoint ELSE store[t]]
    ELSE store

messages_of(values) == get(values, "messages", <<>>)

\* app/core/memory.py : load_messages(conversation_id, limit)
load_messages(store, conversation_id, limit) ==
    LET messages == messages_of(aget_tuple(store, conversation_id).channel_values)
    IN IF limit > 0 THEN SliceSuffix(messages, limit) ELSE messages

(***************************************************************************)
(* app/core/memory.py : the singletons _pool, _checkpointer and            *)
(* _conversation_graph.  An Optional global is the sequence of what it     *)
(* holds: <<>> is None, <<n>> refers to the n-th object made of its kind.  *)
(* pools, checkpointers and graphs are the objects made so far: a pool is  *)
(* open or closed, a checkpointer has its pool and the state of its        *)
(* setup(), a graph has the checkpointer it was compiled with.             *)
(***************************************************************************)
NoMemory ==
    [_pool |-> <<>>, _checkpointer |-> <<>>, _conversation_graph |-> <<>>,
     pools |-> <<>>, checkpointers |-> <<>>, graphs |-> <<>>]

\* if _pool is None: _pool = AsyncConnectionPool(...)
init_pool(m) ==
    IF m._pool = <<>>
    THEN [m EXCEPT !._pool = <<Len(m.pools) + 1>>,
                   !.pools = Append(@, [closed |-> FALSE])]
    ELSE m

\* if _checkpointer is None: _checkpointer = AsyncPostgresSaver(_pool),
\* assigned before its setup() is awaited
init_checkpointer(m) ==
    IF m._checkpointer = <<>>
    THEN [m EXCEPT !._checkpointer = <<Len(m.checkpointers) + 1>>,
                   !.checkpointers =
                       Append(@, [pool |-> m._pool, setup |-> "pending"])]
    ELSE m

\* checkpointer c's setup() has completed
setup(m, c) == [m EXCEPT !.checkpointers[c].setup = "done"]

\* if _conversation_graph is None:
\*     _conversation_graph = create_conversation_graph(_checkpointer)
init_conversation_graph(m) ==
    IF m._conversation_graph = <<>>
    THEN [m EXCEPT !._conversation_graph = <<Len(m.graphs) + 1>>,
                   !.graphs = Append(@, [checkpointer |-> m._checkpointer])]
    ELSE m

\* init_checkpoint_system() run to its end without another caller in between
init_checkpoint_system(m) ==
    LET made == init_checkpointer(init_pool(m))
    IN init_conversation_graph(
           IF m._checkpointer = <<>> THEN setup(made, made._checkpointer[1])
           ELSE made)

\* init_checkpoint_system() whose await _checkpointer.setup() raises: the
\* pool and the checkpointer stay assigned, no graph is compiled
init_checkpoint_system_setup_raised(m) == init_checkpointer(init_pool(m))

close_checkpoint_system_keeping_graph(m) ==
    IF m._pool # <<>>
    THEN [m EXCEPT !.pools[m._pool[1]].closed = TRUE,
                   !._pool = <<>>, !._checkpointer = <<>>]
    ELSE m

\* close_checkpoint_system(): if _pool: close it and reset the three globals
close_checkpoint_system(m) ==
    IF m._pool # <<>>
    THEN [m EXCEPT !.pools[m._pool[1]].closed = TRUE,
                   !._pool = <<>>, !._checkpointer = <<>>,
                   !._conversation_graph = <<>>]
    ELSE m

\* get_conversation_graph(): the graph, or RuntimeError
get_conversation_graph(m) ==
    IF m._conversation_graph = <<>>
    THEN [raised |-> "RuntimeError"]
    ELSE [returned |-> m._conversation_graph]

\* no call in flight
Idle == [pc |-> "idle"]

\* the callers of the module's functions
Callers == {"t1", "t2", "t3"}

\* the system as the application's startup leaves it
MemoryReady ==
    /\ memory = init_checkpoint_system(NoMemory)
    /\ callers = [c \in Callers |-> Idle]

(***************************************************************************)
(* app/core/memory.py : run_conversation, one call at a time.  `inv` is    *)
(* the call in flight: its thread, the node the graph is at, the graph     *)
(* state, and what the call has done so far.                               *)
(***************************************************************************)
PipelineInit ==
    /\ MemoryReady
    /\ ckpt = EmptyDict
    /\ inv = Idle
    /\ outcome = [status |-> "none"]
    /\ hist = [started |-> 0,
               returned |-> [t \in Threads |-> 0],
               raised |-> [t \in Threads |-> 0],
               generated |-> [t \in Threads |-> <<>>],
               followup_output |-> <<>>,
               cleared |-> [t \in Threads |-> -1]]


(***************************************************************************)
(* The relational database of app/models/conversation.py and the requests  *)
(* of app/api/v1/conversations.py : send_message.                          *)
(***************************************************************************)
Requests == {"r1", "r2"}
Users == {"u1", "u2"}                       \* current_user.id
ConversationIds == Threads \cup {"c0"}      \* "c0" is the id of no row
New == [phase |-> "new"]

\* the conversations table holds every thread; messages is the messages
\* table in commit order
Database(document_id) ==
    [conversations |->
        [c \in Threads |-> [id |-> c, user_id |-> "u1",
                            primary_document_id |-> document_id,
                            updated_at |-> "t0"]],
     messages |-> <<>>]

ServiceIdle ==
    /\ reqs = [r \in Requests |-> New]
    /\ db = Database(None)

\* the external collaborators of the pipeline
Collaborators == {"embedder", "retriever", "generator", "followup_generator"}

node_calls_retrying(node, state) ==
    CASE node = "rag_retrieve" ->
           IF TruthyId(get(state, "document_id", None))
           THEN <<"embedder", "retriever">> ELSE <<"embedder">>
      [] node = "llm_generate" -> <<"generator", "generator">>
      [] OTHER -> <<"followup_generator">>

\* the collaborator calls a node makes, in order: get_query_embedding and
\* retrieve_chunks_for_document, chain.ainvoke, generate_follow_up_questions
node_calls(node, state) ==
    CASE node = "rag_retrieve" ->
           IF TruthyId(get(state, "document_id", None))
           THEN <<"embedder", "retriever">> ELSE <<"embedder">>
      [] node = "llm_generate" -> <<"generator">>
      [] OTHER -> <<"followup_generator">>

\* the call counts after the calls `made`
count_calls(calls, made) ==
    [c \in Collaborators |->
        calls[c] + Cardinality({i \in 1..Len(made) : made[i] = c})]

\* the call has ended: it is recorded with the checkpoint it started from
finished(status, at, result) ==
    [status |-> status, at |-> at, result |-> result,
     calls |-> inv.calls, failed |-> None, computed |-> inv.computed,
     thread |-> inv.thread, question |-> inv.state.question,
     before |-> inv.before, puts |-> inv.puts, msg_puts |-> inv.msg_puts,
     trace |-> inv.trace, sent |-> inv.sent, followup_sent |-> inv.followup_sent]

\* a node has returned `update`: the graph writes it to the state, saves a
\* checkpoint and moves along the node's edge; `sent` and `followup_sent`
\* keep what the call has handed to the two generators
node_done(node, update, sent, followup_sent) ==
    LET state == Update(inv.state, update)
    IN /\ ckpt' = aput(ckpt, inv.thread, "loop", state)
       /\ inv' = [inv EXCEPT
                    !.pc = edges[node],
                    !.state = state,
                    !.trace = Append(@, node),
                    !.calls = count_calls(@, node_calls(node, inv.state)),
                    !.computed = Update(@, update),
                    !.puts = @ + 1,
                    !.msg_puts =
                        IF messages_of(state) # messages_of(inv.state)
                        THEN @ + 1 ELSE @,
                    !.sent = sent,
                    !.followup_sent = followup_sent]

\* the k-th collaborator call of a node has raised: the node raises,
\* ainvoke raises, run_conversation raises
node_raised(node) ==
    /\ inv' = Idle
    /\ \E k \in 1..Len(node_calls(node, inv.state)) :
          LET made == SubSeq(node_calls(node, inv.state), 1, k)
          IN outcome' = [finished("raised", node, EmptyDict) EXCEPT
                           !.calls = count_calls(@, made),
                           !.failed = made[k]]
    /\ hist' = [hist EXCEPT !.raised[inv.thread] = @ + 1]
    /\ UNCHANGED <<ckpt, fn_args, fn_ret, reqs, db, memory, callers>>

\* run_conversation up to the first node: graph.ainvoke loads the thread's
\* checkpoint, saves the input checkpoint, writes the input keys to the
\* state and saves the checkpoint of step 0
graph_ainvoke(conversation_id, question, document_id, user_level) ==
    /\ inv.pc = "idle"
    /\ LET before == aget_tuple(ckpt, conversation_id)
           saved == before.channel_values
           state == Update(saved,
                       [question |-> question,
                        conversation_id |-> conversation_id,
                        document_id |-> document_id,
                        user_level |-> user_level])
       IN /\ ckpt' = aput(aput(ckpt, conversation_id, "input", saved),
                          conversation_id, "loop", state)
          /\ inv' = [pc |-> entry_point, thread |-> conversation_id,
                     state |-> state, before |-> before, trace |-> <<>>,
                     puts |-> 2, msg_puts |-> 0,
                     calls |-> [c \in Collaborators |-> 0],
                     computed |-> EmptyDict,
                     sent |-> EmptyDict, followup_sent |-> EmptyDict]
    /\ hist' = [hist EXCEPT !.started = @ + 1]
    /\ UNCHANGED <<outcome, fn_args, fn_ret, reqs, db, memory, callers>>

run_conversation(conversation_id, question, document_id, user_level) ==
    /\ hist.started < MaxTurns
    /\ graph_ainvoke(conversation_id, question, document_id, user_level)

rag_retrieve_node ==
    /\ inv.pc = "rag_retrieve"
    /\ \E chunks \in retrieved(inv.state) :
          LET document_id == get(inv.state, "document_id", None)
              decision == should_use_chunks(
                              IF TruthyId(document_id) THEN document_id
                              ELSE None,
                              chunks, similarity_threshold)
          IN node_done("rag_retrieve",
                       rag_retrieve_update(inv.state, chunks, decision),
                       inv.sent, inv.followup_sent)
    /\ UNCHANGED <<outcome, hist, fn_args, fn_ret, reqs, db, memory, callers>>

\* get_query_embedding or the database query raises
rag_retrieve_raises ==
    /\ inv.pc = "rag_retrieve"
    /\ node_raised("rag_retrieve")

llm_generate_node ==
    /\ inv.pc = "llm_generate"
    /\ \E raw \in LLMOutputs, metadata \in ResponseMetadata :
          LET update == llm_generate_update(inv.state, raw, metadata)
          IN /\ node_done("llm_generate", update,
                          llm_input(inv.state), inv.followup_sent)
             /\ hist' = [hist EXCEPT
                           !.generated[inv.thread] =
                               Append(@, [question |-> inv.state.question,
                                          answer |-> update.answer])]
    /\ UNCHANGED <<outcome, fn_args, fn_ret, reqs, db, memory, callers>>

\* chain.ainvoke raises
llm_generate_raises ==
    /\ inv.pc = "llm_generate"
    /\ node_raised("llm_generate")

followup_node ==
    /\ inv.pc = "followup"
    /\ \E output \in FollowupOutputs :
          /\ node_done("followup",
              [follow_up_questions |->
                  generate_follow_up_questions(output, num_questions)],
              inv.sent,
              followup_input(
                  inv.state.question, inv.state.answer,
                  get(inv.state, "context", EmptyStr),
                  to_user_level(get(inv.state, "user_level", "beginner"))))
          /\ hist' = [hist EXCEPT !.followup_output = output]
    /\ UNCHANGED <<outcome, fn_args, fn_ret, reqs, db, memory, callers>>

\* llm.invoke of the follow-up prompt raises
followup_raises ==
    /\ inv.pc = "followup"
    /\ node_raised("followup")

\* ainvoke has returned the final state: the result dict is built
run_conversation_result(result, document_id, user_level) ==
    [answer |-> result.answer,
     follow_up_questions |-> get(result, "follow_up_questions", <<>>),
     cited_chunks |->
         LET chunks == get(result, "retrieved_chunks", <<>>)
         IN [i \in 1..Len(chunks) |-> chunks[i].id],
     reference_context |->
         [chunks_used |-> Len(get(result, "retrieved_chunks", <<>>)),
          document_id |-> IF TruthyId(document_id) THEN document_id ELSE None,
          max_similarity |-> get(result, "max_similarity", 0),
          decision_reason |-> get(result, "decision_reason", EmptyStr),
          user_level |-> user_level],
     model_version |-> get(result, "model_version", "solar-pro2"),
     token_usage |-> get(result, "token_usage", EmptyDict)]

run_conversation_returns ==
    /\ inv.pc = END
    /\ inv' = Idle
    /\ outcome' = finished("returned", END,
                      run_conversation_result(inv.state, inv.state.document_id,
                                              inv.state.user_level))
    /\ hist' = [hist EXCEPT !.returned[inv.thread] = @ + 1]
    /\ UNCHANGED <<ckpt, fn_args, fn_ret, reqs, db, memory, callers>>

Init ==
    /\ fn_args = EmptyDict
    /\ fn_ret = EmptyDict
    /\ PipelineInit
    /\ ServiceIdle

Next ==
    \/ \E t \in Threads, q \in Questions, d \in DocumentIds, l \in UserLevels :
          run_conversation(t, q, d, l)
    \/ rag_retrieve_node
    \/ rag_retrieve_raises
    \/ llm_generate_node
    \/ llm_generate_raises
    \/ followup_node
    \/ followup_raises
    \/ run_conversation_returns

Spec == Init /\ [][Next]_vars

(***************************************************************************)
(* app/core/memory.py : clear_conversation, called between invocations.    *)
(* The checkpoint it hands to aput has the id "", which is below every id  *)
(* the graph generates: it is the id 0 here, the graph's ids start at 1.   *)
(***************************************************************************)
clear_checkpoint ==
    [id |-> 0, step |-> 0, source |-> "clear",
     channel_values |-> [messages |-> <<>>]]

clear_conversation(conversation_id) ==
    /\ inv.pc = "idle"
    /\ ckpt' = aput_checkpoint(ckpt, conversation_id, clear_checkpoint)
    /\ outcome' = [status |-> "cleared", thread |-> conversation_id,
                   before |-> aget_tuple(ckpt, conversation_id),
                   written |-> clear_checkpoint]
    /\ hist' = [hist EXCEPT
                  !.cleared[conversation_id] =
                      hist.returned[conversation_id]
                        + hist.raised[conversation_id]]
    /\ UNCHANGED <<inv, fn_args, fn_ret, reqs, db, memory, callers>>

\* checkpointer.aput raises: nothing is written
clear_conversation_raises(conversation_id) ==
    /\ inv.pc = "idle"
    /\ outcome' = [status |-> "clear_raised", thread |-> conversation_id,
                   before |-> aget_tuple(ckpt, conversation_id)]
    /\ UNCHANGED <<ckpt, inv, hist, fn_args, fn_ret, reqs, db, memory, callers>>

\* len(load_messages(conversation_id, limit=0))
get_message_count(store, conversation_id) ==
    Len(load_messages(store, conversation_id, 0))

NextClear ==
    \/ Next
    \/ \E t \in Threads : clear_conversation(t)
    \/ \E t \in Threads : clear_conversation_raises(t)

SpecClear == Init /\ [][NextClear]_vars

(***************************************************************************)
(* A long open thread: invocations that all succeed, one after the other.  *)
(***************************************************************************)
\* app/core/llm.py : generate_conversation_answer, history[-5:]
history_window == 5

default_user_level == "beginner"

\* run_conversation on an open thread, up to MaxHistoryTurns times
next_turn(conversation_id, question) ==
    /\ hist.started < MaxHistoryTurns
    /\ graph_ainvoke(conversation_id, question, None, default_user_level)

HistoryNext ==
    \/ \E t \in Threads, q \in Questions : next_turn(t, q)
    \/ rag_retrieve_node
    \/ llm_generate_node
    \/ followup_node
    \/ run_conversation_returns

SpecHistory == Init /\ [][HistoryNext]_vars

(***************************************************************************)
(* app/api/v1/conversations.py : send_message and                          *)
(* app/services/conversation_service.py : process_user_message.  Every     *)
(* request has a database session of its own and awaits run_conversation;  *)
(* nothing orders two requests of one conversation, so their graph steps   *)
(* interleave.  A request record keeps the graph state of its invocation.  *)
(***************************************************************************)
\* query(...).first(): the rows found, at most one, <<>> standing for None
get_conversation_by_id_of_any_user(database, conversation_id, user_id) ==
    IF conversation_id \in DOMAIN database.conversations
    THEN <<database.conversations[conversation_id]>> ELSE <<>>

get_conversation_by_id(database, conversation_id, user_id) ==
    IF /\ conversation_id \in DOMAIN database.conversations
       /\ database.conversations[conversation_id].user_id = user_id
    THEN <<database.conversations[conversation_id]>> ELSE <<>>

\* the exceptions a node can raise, by the call that raises them
node_errors ==
    [rag_retrieve |-> {"EmbeddingFailure", "RetrievalFailure"},
     llm_generate |-> {"GenerationFailure"},
     followup |-> {"FollowUpFailure"}]

\* str(e)
str(error) ==
    IF "message" \in DOMAIN error THEN <<error.message>>
    ELSE <<error.kind, " in ", error.at>>

\* logger.error(f"Error: {str(e)}")
log_error(error) ==
    [level |-> "error", format |-> "Error: {}", args |-> str(error)]

\* send_message: except ValueError / except Exception
http_exception(error) ==
    IF error.kind = "ValueError"
    THEN [status_code |-> 404, detail |-> str(error)]
    ELSE [status_code |-> 500,
          detail |-> <<"An unexpected error occurred.">>]

\* _save_user_message, _save_ai_message: the rows of the turn
save_user_message(r, conversation_id, content) ==
    [id |-> <<r, "user">>, conversation_id |-> conversation_id,
     role |-> "user", content |-> content]

save_ai_message(r, conversation_id, rag_result) ==
    [id |-> <<r, "assistant">>, conversation_id |-> conversation_id,
     role |-> "assistant", content |-> rag_result.answer,
     cited_chunks |-> get(rag_result, "cited_chunks", <<>>),
     follow_up_questions |-> get(rag_result, "follow_up_questions", <<>>),
     reference_context |-> get(rag_result, "reference_context", EmptyDict),
     model_version |-> get(rag_result, "model_version", None),
     token_usage |-> get(rag_result, "token_usage", EmptyDict),
     latency_ms |-> get(rag_result, "latency_ms", None)]

rollback_saving_user_message(database, r, conversation_id, content) ==
    [database EXCEPT
        !.messages = Append(@, save_user_message(r, conversation_id, content)),
        !.conversations[conversation_id].updated_at = r]

\* self.db.rollback() in the except clause: the session has added nothing
\* before run_conversation returned, and what it holds is discarded
rollback(database, r, conversation_id, content) == database

\* send_message up to the first node of the graph: the conversation is
\* found, run_conversation starts graph.ainvoke as in run_conversation above
send_message(r, conversation_id, user_id, content) ==
    /\ reqs[r].phase = "new"
    /\ LET conversation == get_conversation_by_id(db, conversation_id, user_id)
           before == aget_tuple(ckpt, conversation_id)
           saved == before.channel_values
           state == Update(saved,
                       [question |-> content,
                        conversation_id |-> conversation_id,
                        document_id |-> conversation[1].primary_document_id,
                        user_level |-> default_user_level])
       IN /\ conversation # <<>>
          /\ ckpt' = aput(aput(ckpt, conversation_id, "input", saved),
                          conversation_id, "loop", state)
          /\ reqs' = [reqs EXCEPT ![r] =
                        [phase |-> "running", pc |-> entry_point,
                         thread |-> conversation_id, user_id |-> user_id,
                         content |-> content,
                         state |-> state, before |-> before]]
    /\ UNCHANGED <<db, inv, outcome, hist, fn_args, fn_ret, memory, callers>>

\* a node of the request's invocation has returned `update`
request_node_done(r, node, update) ==
    LET state == Update(reqs[r].state, update)
    IN /\ ckpt' = aput(ckpt, reqs[r].thread, "loop", state)
       /\ reqs' = [reqs EXCEPT ![r].pc = edges[node], ![r].state = state]
       /\ UNCHANGED <<db, inv, outcome, hist, fn_args, fn_ret, memory, callers>>

request_rag_retrieve(r) ==
    /\ reqs[r].phase = "running"
    /\ reqs[r].pc = "rag_retrieve"
    /\ \E chunks \in retrieved(reqs[r].state) :
          LET document_id == get(reqs[r].state, "document_id", None)
              decision == should_use_chunks(
                              IF TruthyId(document_id) THEN document_id
                              ELSE None,
                              chunks, similarity_threshold)
          IN request_node_done(r, "rag_retrieve",
                 rag_retrieve_update(reqs[r].state, chunks, decision))

request_llm_generate(r) ==
    /\ reqs[r].phase = "running"
    /\ reqs[r].pc = "llm_generate"
    /\ \E raw \in LLMOutputs, metadata \in ResponseMetadata :
          request_node_done(r, "llm_generate",
              llm_generate_update(reqs[r].state, raw, metadata))

request_followup(r) ==
    /\ reqs[r].phase = "running"
    /\ reqs[r].pc = "followup"
    /\ \E output \in FollowupOutputs :
          request_node_done(r, "followup",
              [follow_up_questions |->
                  generate_follow_up_questions(output, num_questions)])

\* run_conversation has raised `error`: process_user_message rolls back,
\* logs and re-raises, send_message answers with an HTTPException
process_user_message_raises(r, error) ==
    /\ db' = rollback(db, r, reqs[r].thread, reqs[r].content)
    /\ reqs' = [reqs EXCEPT ![r] =
                  [phase |-> "done", status |-> "raised",
                   thread |-> reqs[r].thread, user_id |-> reqs[r].user_id,
                   content |-> reqs[r].content,
                   before |-> reqs[r].before,
                   error |-> error, raised |-> error,
                   logged |-> <<log_error(error)>>,
                   response |-> http_exception(error)]]
    /\ UNCHANGED <<ckpt, inv, outcome, hist, fn_args, fn_ret, memory, callers>>

\* send_message on a conversation that get_conversation_by_id does not find
\* for the user: process_user_message raises ValueError before
\* run_conversation, the except clause rolls back, logs and re-raises, and
\* send_message answers 404
process_user_message_not_found(r, conversation_id, user_id, content) ==
    /\ reqs[r].phase = "new"
    /\ get_conversation_by_id(db, conversation_id, user_id) = <<>>
    /\ LET error == [kind |-> "ValueError", at |-> "process_user_message",
                     message |-> "Conversation not found"]
       IN reqs' = [reqs EXCEPT ![r] =
                     [phase |-> "done", status |-> "raised",
                      thread |-> conversation_id, user_id |-> user_id,
                      content |-> content,
                      error |-> error, raised |-> error,
                      logged |-> <<log_error(error)>>,
                      response |-> http_exception(error)]]
    /\ db' = db
    /\ UNCHANGED <<ckpt, inv, outcome, hist, fn_args, fn_ret, memory, callers>>

\* the node the invocation is at raises
request_node_raises(r) ==
    /\ reqs[r].phase = "running"
    /\ reqs[r].pc \in DOMAIN node_errors
    /\ \E kind \in node_errors[reqs[r].pc] :
          process_user_message_raises(r, [kind |-> kind, at |-> reqs[r].pc])

\* the node the invocation is at has returned and the write of its
\* checkpoint raises
request_checkpoint_write_raises(r) ==
    /\ reqs[r].phase = "running"
    /\ reqs[r].pc \in DOMAIN node_errors
    /\ process_user_message_raises(r,
           [kind |-> "CheckpointWriteFailure", at |-> reqs[r].pc])

\* run_conversation has returned and a flush or self.db.commit() raises: the
\* except clause rolls back and re-raises
request_commit_raises(r) ==
    /\ reqs[r].phase = "running"
    /\ reqs[r].pc = END
    /\ process_user_message_raises(r, [kind |-> "CommitFailure", at |-> END])

\* run_conversation has returned: the two rows and the timestamp are
\* committed and send_message answers with the assistant row
process_user_message_commits(r) ==
    /\ reqs[r].phase = "running"
    /\ reqs[r].pc = END
    /\ LET rag_result == run_conversation_result(
                             reqs[r].state, reqs[r].state.document_id,
                             reqs[r].state.user_level)
           user_message == save_user_message(r, reqs[r].thread,
                                             reqs[r].content)
           ai_message == save_ai_message(r, reqs[r].thread, rag_result)
       IN /\ db' = [db EXCEPT
                      !.messages = @ \o <<user_message, ai_message>>,
                      !.conversations[reqs[r].thread].updated_at = r]
          /\ reqs' = [reqs EXCEPT ![r] =
                        [phase |-> "done", status |-> "returned",
                         thread |-> reqs[r].thread,
                         user_id |-> reqs[r].user_id,
                         content |-> reqs[r].content,
                         before |-> reqs[r].before,
                         logged |-> <<>>,
                         response |-> [status_code |-> 201,
                                       body |-> ai_message]]]
    /\ UNCHANGED <<ckpt, inv, outcome, hist, fn_args, fn_ret, memory, callers>>

ServiceInit ==
    /\ fn_args = EmptyDict
    /\ fn_ret = EmptyDict
    /\ PipelineInit
    /\ reqs = [r \in Requests |-> New]
    /\ db \in {Database(d) : d \in {None, "d1"}}

ServiceNext ==
    \E r \in Requests :
        \/ \E t \in ConversationIds, u \in Users, q \in Questions :
              \/ send_message(r, t, u, q)
              \/ process_user_message_not_found(r, t, u, q)
        \/ request_rag_retrieve(r)
        \/ request_llm_generate(r)
        \/ request_followup(r)
        \/ request_node_raises(r)
        \/ request_checkpoint_write_raises(r)
        \/ request_commit_raises(r)
        \/ process_user_message_commits(r)

SpecService == ServiceInit /\ [][ServiceNext]_vars

(***************************************************************************)
(* Pure-function harness: the arguments are drawn in FnInit, the calls     *)
(* apply the functions to them.                                            *)

(***************************************************************************)
(* app/core/memory.py : run_conversation and clear_conversation on two     *)
(* threads.  Every call passes config = {"configurable": {"thread_id":     *)
(* str(conversation_id)}}; the workers' graph steps and the clears         *)
(* interleave freely.  hist.asked keeps the questions asked on a thread.   *)
(***************************************************************************)
MaxThreadTurns == 2
ThreadIds == {"c1", "c2"}

ThreadsInit ==
    /\ fn_args = EmptyDict
    /\ fn_ret = EmptyDict
    /\ MemoryReady
    /\ ckpt = EmptyDict
    /\ inv = Idle
    /\ outcome = [status |-> "none"]
    /\ hist = [started |-> 0, asked |-> [t \in ThreadIds |-> {}]]
    /\ reqs = [r \in Requests |-> New]
    /\ db = Database(None)

\* run_conversation up to the first node, by worker r
worker_run_conversation(r, conversation_id, question, document_id, user_level) ==
    /\ reqs[r].phase = "new"
    /\ hist.started < MaxThreadTurns
    /\ LET before == aget_tuple(ckpt, conversation_id)
           saved == before.channel_values
           state == Update(saved,
                       [question |-> question,
                        conversation_id |-> conversation_id,
                        document_id |-> document_id,
                        user_level |-> user_level])
       IN /\ ckpt' = aput(aput(ckpt, conversation_id, "input", saved),
                          conversation_id, "loop", state)
          /\ reqs' = [reqs EXCEPT ![r] =
                        [phase |-> "running", pc |-> entry_point,
                         thread |-> conversation_id, state |-> state]]
    /\ hist' = [hist EXCEPT !.started = @ + 1,
                            !.asked[conversation_id] = @ \cup {question}]
    /\ UNCHANGED <<db, inv, outcome, fn_args, fn_ret, memory, callers>>

\* the nodes of worker r's run after rag_retrieve; the two generators
\* answer with stripped text and well-formed questions
worker_llm_generate(r) ==
    /\ reqs[r].phase = "running"
    /\ reqs[r].pc = "llm_generate"
    /\ \E raw \in {o \in LLMOutputs : strip(o) = o},
          metadata \in ResponseMetadata :
          request_node_done(r, "llm_generate",
              llm_generate_update(reqs[r].state, raw, metadata))

worker_followup(r) ==
    /\ reqs[r].phase = "running"
    /\ reqs[r].pc = "followup"
    /\ \E output \in {o \in FollowupOutputs : \A i \in 1..Len(o) : o[i].tagged} :
          request_node_done(r, "followup",
              [follow_up_questions |->
                  generate_follow_up_questions(output, num_questions)])

\* ainvoke has returned or a node has raised: the worker is free again
worker_run_conversation_ends(r) ==
    /\ reqs[r].phase = "running"
    /\ reqs' = [reqs EXCEPT ![r] = New]
    /\ UNCHANGED <<ckpt, db, inv, outcome, hist, fn_args, fn_ret, memory, callers>>

\* clear_conversation(conversation_id), at any point of the workers' runs
worker_clear_conversation(conversation_id) ==
    /\ ckpt' = aput_checkpoint(ckpt, conversation_id, clear_checkpoint)
    /\ outcome' = [status |-> "cleared", thread |-> conversation_id]
    /\ UNCHANGED <<reqs, db, inv, hist, fn_args, fn_ret, memory, callers>>

ThreadsNext ==
    \/ \E r \in Requests, t \in ThreadIds, q \in Questions :
          worker_run_conversation(r, t, q, None, default_user_level)
    \/ \E r \in Requests :
          \/ request_rag_retrieve(r)
          \/ worker_llm_generate(r)
          \/ worker_followup(r)
          \/ worker_run_conversation_ends(r)
    \/ \E t \in ThreadIds : worker_clear_conversation(t)

SpecThreads == ThreadsInit /\ [][ThreadsNext]_vars


(***************************************************************************)
(* app/core/memory.py : init_checkpoint_system, close_checkpoint_system    *)
(* and get_conversation_graph called one after the other, each call run    *)
(* to its end.  hist.initialized tells whether an init has completed       *)
(* since the last close; at most MaxPools pools are made.                  *)
(***************************************************************************)
MaxPools == 2

LifecycleInit ==
    /\ fn_args = EmptyDict
    /\ fn_ret = EmptyDict
    /\ ckpt = EmptyDict
    /\ inv = Idle
    /\ outcome = [status |-> "none"]
    /\ hist = [started |-> 0, initialized |-> FALSE]
    /\ ServiceIdle
    /\ memory = NoMemory
    /\ callers = [c \in Callers |-> Idle]

\* the call of caller c has ended with `result`; a returned None is <<>>
called(c, fn, result) ==
    callers' = [callers EXCEPT ![c] =
                   [pc |-> "idle", fn |-> fn, result |-> result]]

caller_init_checkpoint_system(c) ==
    /\ memory._pool # <<>> \/ Len(memory.pools) < MaxPools
    /\ memory' = init_checkpoint_system(memory)
    /\ called(c, "init_checkpoint_system", [returned |-> <<>>])
    /\ hist' = [hist EXCEPT !.initialized = TRUE]
    /\ UNCHANGED <<fn_args, fn_ret, ckpt, inv, outcome, reqs, db>>

\* setup() is awaited only by the call that has made the checkpointer
caller_init_checkpoint_system_raises(c) ==
    /\ memory._pool # <<>> \/ Len(memory.pools) < MaxPools
    /\ memory._checkpointer = <<>>
    /\ memory' = init_checkpoint_system_setup_raised(memory)
    /\ called(c, "init_checkpoint_system", [raised |-> "SetupError"])
    /\ UNCHANGED <<fn_args, fn_ret, ckpt, inv, outcome, hist, reqs, db>>

caller_close_checkpoint_system(c) ==
    /\ memory' = close_checkpoint_system(memory)
    /\ called(c, "close_checkpoint_system", [returned |-> <<>>])
    /\ hist' = [hist EXCEPT !.initialized = FALSE]
    /\ UNCHANGED <<fn_args, fn_ret, ckpt, inv, outcome, reqs, db>>

caller_get_conversation_graph(c) ==
    /\ called(c, "get_conversation_graph", get_conversation_graph(memory))
    /\ UNCHANGED <<fn_args, fn_ret, ckpt, inv, outcome, hist, reqs, db, memory>>

LifecycleNext ==
    \E c \in Callers :
        \/ caller_init_checkpoint_system(c)
        \/ caller_init_checkpoint_system_raises(c)
        \/ caller_close_checkpoint_system(c)
        \/ caller_get_conversation_graph(c)

SpecLifecycle == LifecycleInit /\ [][LifecycleNext]_vars


(***************************************************************************)
(* app/core/memory.py : init_checkpoint_system, get_checkpointer and       *)
(* get_conversation_graph called by coroutines of one event loop.  A       *)
(* coroutine runs alone up to `await _checkpointer.setup()`, where the     *)
(* others run; nothing else in these functions suspends.                   *)
(***************************************************************************)
ConcurrentInit ==
    /\ fn_args = EmptyDict
    /\ fn_ret = EmptyDict
    /\ ckpt = EmptyDict
    /\ inv = Idle
    /\ outcome = [status |-> "none"]
    /\ hist = [started |-> 0]
    /\ ServiceIdle
    /\ memory = NoMemory
    /\ callers = [c \in Callers |-> Idle]

\* what the function fn returns at its end
return_value(fn, m) ==
    IF fn = "get_checkpointer" THEN m._checkpointer ELSE <<>>

\* init_checkpoint_system() from its first line, for caller c inside fn: up
\* to the await of setup() when this call makes the checkpointer, to the end
\* otherwise
init_checkpoint_system_begins(c, fn) ==
    LET made == init_checkpointer(init_pool(memory))
    IN IF memory._checkpointer = <<>>
       THEN /\ memory' = made
            /\ callers' = [callers EXCEPT ![c] =
                              [pc |-> "setup", fn |-> fn,
                               awaited |-> made._checkpointer[1]]]
       ELSE /\ memory' = init_conversation_graph(made)
            /\ called(c, fn, [returned |-> return_value(fn, memory')])

coroutine_init_checkpoint_system(c) ==
    /\ callers[c].pc = "idle"
    /\ init_checkpoint_system_begins(c, "init_checkpoint_system")
    /\ UNCHANGED <<fn_args, fn_ret, ckpt, inv, outcome, hist, reqs, db>>

\* get_checkpointer(): if _checkpointer is None: await init_checkpoint_system()
coroutine_get_checkpointer(c) ==
    /\ callers[c].pc = "idle"
    /\ IF memory._checkpointer = <<>>
       THEN init_checkpoint_system_begins(c, "get_checkpointer")
       ELSE /\ memory' = memory
            /\ called(c, "get_checkpointer",
                      [returned |-> return_value("get_checkpointer", memory)])
    /\ UNCHANGED <<fn_args, fn_ret, ckpt, inv, outcome, hist, reqs, db>>

\* the awaited setup() has completed: the rest of init_checkpoint_system
\* and, inside get_checkpointer, its return
coroutine_setup_returns(c) ==
    /\ callers[c].pc = "setup"
    /\ memory' = init_conversation_graph(setup(memory, callers[c].awaited))
    /\ called(c, callers[c].fn,
              [returned |-> return_value(callers[c].fn, memory')])
    /\ UNCHANGED <<fn_args, fn_ret, ckpt, inv, outcome, hist, reqs, db>>

\* the awaited setup() raises
coroutine_setup_raises(c) ==
    /\ callers[c].pc = "setup"
    /\ called(c, callers[c].fn, [raised |-> "SetupError"])
    /\ UNCHANGED <<fn_args, fn_ret, ckpt, inv, outcome, hist, reqs, db, memory>>

coroutine_get_conversation_graph(c) ==
    /\ callers[c].pc = "idle"
    /\ caller_get_conversation_graph(c)

ConcurrentNext ==
    \E c \in Callers :
        \/ coroutine_init_checkpoint_system(c)
        \/ coroutine_get_checkpointer(c)
        \/ coroutine_setup_returns(c)
        \/ coroutine_setup_raises(c)
        \/ coroutine_get_conversation_graph(c)

SpecConcurrentInit == ConcurrentInit /\ [][ConcurrentNext]_vars

(***************************************************************************)
ChunkPool ==
    { [id |-> "k1", content |-> <<"a", "b">>, similarity |-> 90],
      [id |-> "k2", content |-> <<"c">>, similarity |-> 40],
      [id |-> "k3", content |-> <<" ">>, similarity |-> 70],
      [id |-> "k4", content |-> <<"d", "e", "f">>, similarity |-> 69],
      [id |-> "k5", content |-> <<>>, similarity |-> -20],
      [id |-> "k6", content |-> <<"g">>, similarity |-> 80] }

ChunkLists == UNION { [1..n -> ChunkPool] : n \in 0..MaxChunks }

DocumentIdArgs == {None, "", "d1"}

FnInit ==
    /\ fn_args \in [document_id : DocumentIdArgs,
                    chunks : ChunkLists,
                    max_length : 0..MaxLength]
    /\ fn_ret = EmptyDict
    /\ PipelineInit
    /\ ServiceIdle

CallShouldUseChunks ==
    /\ "decision" \notin DOMAIN fn_ret
    /\ fn_ret' = Update(fn_ret,
          [decision |-> should_use_chunks(fn_args.document_id, fn_args.chunks,
                                          similarity_threshold)])
    /\ UNCHANGED <<fn_args, ckpt, inv, outcome, hist, reqs, db, memory, callers>>

CallBuildContext ==
    /\ "context" \notin DOMAIN fn_ret
    /\ fn_ret' = Update(fn_ret,
          [context |-> build_context(fn_args.chunks, fn_args.max_length)])
    /\ UNCHANGED <<fn_args, ckpt, inv, outcome, hist, reqs, db, memory, callers>>

FnNext == CallShouldUseChunks \/ CallBuildContext

SpecFn == FnInit /\ [][FnNext]_vars

(***************************************************************************)
(* Harness of generate_follow_up_questions: the provider output and        *)
(* num_questions are drawn in FollowupInit.                                *)
(***************************************************************************)
PiecePool ==
    [tagged : BOOLEAN,
     text : { <<" ", "f", "1">>, <<" ", "\n">>, <<"f", "2">> }]

ProviderOutputs == UNION { [1..n -> PiecePool] : n \in 0..MaxPieces }

FollowupInit ==
    /\ fn_args \in [output : ProviderOutputs, num_questions : 0..MaxNum]
    /\ fn_ret = EmptyDict
    /\ PipelineInit
    /\ ServiceIdle

CallGenerateFollowUpQuestions ==
    /\ "questions" \notin DOMAIN fn_ret
    /\ fn_ret' = Update(fn_ret,
          [questions |-> generate_follow_up_questions(
                             fn_args.output, fn_args.num_questions)])
    /\ UNCHANGED <<fn_args, ckpt, inv, outcome, hist, reqs, db, memory, callers>>

FollowupNext == CallGenerateFollowUpQuestions

SpecFollowup == FollowupInit /\ [][FollowupNext]_vars

(***************************************************************************)
(* Harness of the prompt selection: llm_generate_node on a state drawn in  *)
(* PromptInit, and the selection of app/core/llm.py :                      *)
(* generate_conversation_answer on the same arguments.                     *)
(***************************************************************************)
\* the prompt helper generate_conversation_answer calls
generate_conversation_answer_prompt(document_id, context) ==
    IF TruthyId(document_id)
    THEN "get_document_rag_context_response_prompt"
    ELSE IF TruthySeq(context) /\ TruthySeq(strip(context))
         THEN "get_general_context_conversation_prompt"
         ELSE "get_general_conversation_prompt"

\* app/core/prompts.py : a template is the sequence of its replacement
\* fields, the fixed wording between them left out
DOCUMENT_RAG_CONTEXT_RESPONSE_PROMPT ==
    <<"user_level_guide", "retrieved_context", "user_question">>
GENERAL_CONTEXT_CONVERSATION_PROMPT ==
    <<"user_level_guide", "retrieved_context", "user_question">>
GENERAL_CONVERSATION_PROMPT == <<"user_level_guide", "user_question">>

USER_LEVEL_GUIDES ==
    [beginner |-> <<"guide:beginner">>,
     intermediate |-> <<"guide:intermediate">>,
     advanced |-> <<"guide:advanced">>]

\* template.format(**kwargs): every field of the template is replaced by its
\* argument; an argument the template has no field for is ignored
format(template, kwargs) ==
    join(<<>>, [i \in 1..Len(template) |-> kwargs[template[i]]])

get_document_rag_context_response_prompt(user_level, retrieved_context, user_question) ==
    format(DOCUMENT_RAG_CONTEXT_RESPONSE_PROMPT,
           [user_level_guide |-> USER_LEVEL_GUIDES[user_level],
            retrieved_context |-> retrieved_context,
            user_question |-> user_question])

get_general_context_conversation_prompt(user_level, retrieved_context, user_question) ==
    format(GENERAL_CONVERSATION_PROMPT,
           [user_level_guide |-> USER_LEVEL_GUIDES[user_level],
            retrieved_context |-> retrieved_context,
            user_question |-> user_question])

get_general_conversation_prompt(user_level, user_question) ==
    format(GENERAL_CONVERSATION_PROMPT,
           [user_level_guide |-> USER_LEVEL_GUIDES[user_level],
            user_question |-> user_question])

\* step 1 of generate_conversation_answer: the last history_window messages,
\* one line each
history_text(history) ==
    LET recent == SliceSuffix(history, history_window)
    IN join(<<>>, [i \in 1..Len(recent) |->
                     <<IF recent[i].role = "user" THEN "user: "
                       ELSE "assistant: ">>
                       \o recent[i].content \o <<"\n">>])

\* step 2 of generate_conversation_answer: the prompt text handed to
\* llm.invoke
generate_conversation_answer_prompt_text(question, context, document_id, history, user_level) ==
    LET retrieved_context ==
            <<"[history]\n">> \o history_text(history)
              \o <<"\n", "\n", ContextHeader>> \o context
        helper == generate_conversation_answer_prompt(document_id, context)
    IN CASE helper = "get_document_rag_context_response_prompt" ->
              get_document_rag_context_response_prompt(
                  user_level, retrieved_context, question)
         [] helper = "get_general_context_conversation_prompt" ->
              get_general_context_conversation_prompt(
                  user_level, retrieved_context, question)
         [] OTHER ->
              get_general_conversation_prompt(
                  user_level,
                  IF TruthySeq(history_text(history))
                  THEN <<"[earlier conversation]\n">>
                         \o history_text(history)
                         \o <<"\n", "\n", QuestionHeader>> \o question
                  ELSE question)

Contexts == UNION { [1..n -> {" ", "a"}] : n \in 0..MaxContext }
Histories == { <<>>, <<[role |-> "user", content |-> <<"h">>]>> }
LevelArgs == {"beginner", "Intermediate", "ADVANCED", "guru"}

PromptInit ==
    /\ fn_args \in [question : { <<"q", "1">> },
                    document_id : DocumentIdArgs,
                    context : Contexts,
                    history : Histories,
                    user_level : LevelArgs]
    /\ fn_ret = EmptyDict
    /\ PipelineInit
    /\ ServiceIdle

CallLlmInput ==
    /\ "sent" \notin DOMAIN fn_ret
    /\ fn_ret' = Update(fn_ret, [sent |-> llm_input(fn_args)])
    /\ UNCHANGED <<fn_args, ckpt, inv, outcome, hist, reqs, db, memory, callers>>

CallGenerateConversationAnswer ==
    /\ "helper" \notin DOMAIN fn_ret
    /\ fn_ret' = Update(fn_ret,
          [helper |-> generate_conversation_answer_prompt(
                          fn_args.document_id, fn_args.context),
           prompt_text |-> generate_conversation_answer_prompt_text(
                               fn_args.question, fn_args.context,
                               fn_args.document_id, fn_args.history,
                               to_user_level(fn_args.user_level))])
    /\ UNCHANGED <<fn_args, ckpt, inv, outcome, hist, reqs, db, memory, callers>>

PromptNext == CallLlmInput \/ CallGenerateConversationAnswer

SpecPrompt == PromptInit /\ [][PromptNext]_vars

(***************************************************************************)
(* Harness of retrieve_chunks_for_document: the query embedding, the       *)
(* document id and top_k are drawn in RetrieveInit; the call returns one   *)
(* of the row sequences the query may return.                              *)
(***************************************************************************)
RetrieveInit ==
    /\ fn_args \in [embedding : {get_query_embedding(q) : q \in Questions},
                    document_id : {None, "", "d1", "d2", "d3"},
                    top_k : 0..MaxTopK]
    /\ fn_ret = EmptyDict
    /\ PipelineInit
    /\ ServiceIdle

CallRetrieveChunksForDocument ==
    /\ "rows" \notin DOMAIN fn_ret
    /\ \E rows \in retrieve_chunks_for_document(
                       fn_args.embedding, fn_args.document_id, fn_args.top_k) :
          fn_ret' = Update(fn_ret, [rows |-> rows])
    /\ UNCHANGED <<fn_args, ckpt, inv, outcome, hist, reqs, db, memory, callers>>

RetrieveNext == CallRetrieveChunksForDocument

SpecRetrieve == RetrieveInit /\ [][RetrieveNext]_vars

(***************************************************************************)
(* Properties                                                              *)
(***************************************************************************)
Decided == "decision" \in DOMAIN fn_ret
Built == "context" \in DOMAIN fn_ret

\* m is the greatest similarity of a non-empty chunk list
IsMaxSimilarity(m, chunks) ==
    /\ \E i \in 1..Len(chunks) : chunks[i].similarity = m
    /\ \A i \in 1..Len(chunks) : chunks[i].similarity <= m

\* C1: with a non-empty document_id, should_use_chunks answers
\* use_chunks = true with reason "document_based_conversation" for every
\* chunk list, and max_similarity is the greatest chunk similarity, or 0 for
\* the empty list: the document check comes before the other two.
C1_DocumentBound ==
    (Decided /\ TruthyId(fn_args.document_id)) =>
        /\ fn_ret.decision.use_chunks = TRUE
        /\ fn_ret.decision.reason = "document_based_conversation"
        /\ IF fn_args.chunks = <<>>
           THEN fn_ret.decision.max_similarity = 0
           ELSE IsMaxSimilarity(fn_ret.decision.max_similarity, fn_args.chunks)

\* a document-bound call on a list whose similarities are all below the
\* threshold has been decided
C1_Witness ==
    /\ Decided
    /\ fn_args.document_id = "d1"
    /\ fn_args.chunks # <<>>
    /\ \A i \in 1..Len(fn_args.chunks) :
          fn_args.chunks[i].similarity < similarity_threshold
    /\ fn_ret.decision.use_chunks = TRUE

\* C2: without a document_id, the empty list gives
\* (false, 0, "no_relevant_chunks"); otherwise max_similarity is the greatest
\* similarity and use_chunks is true with "relevant_chunks_found" exactly
\* when it is >= 0.7, false with "low_similarity" below.
C2_OpenThread ==
    (Decided /\ ~TruthyId(fn_args.document_id)) =>
        IF fn_args.chunks = <<>>
        THEN fn_ret.decision =
                 [use_chunks |-> FALSE, max_similarity |-> 0,
                  reason |-> "no_relevant_chunks"]
        ELSE /\ IsMaxSimilarity(fn_ret.decision.max_similarity, fn_args.chunks)
             /\ fn_ret.decision.use_chunks =
                    (fn_ret.decision.max_similarity >= 70)
             /\ fn_ret.decision.reason =
                    IF fn_ret.decision.max_similarity >= 70
                    THEN "relevant_chunks_found" ELSE "low_similarity"

\* an open call whose best chunk sits exactly on the threshold was decided
C2_Witness ==
    /\ Decided
    /\ fn_args.document_id = None
    /\ fn_args.chunks # <<>>
    /\ fn_ret.decision.max_similarity = 70
    /\ fn_ret.decision.use_chunks = TRUE

\* the characters of the chunk contents in the given order, two line feeds
\* between consecutive chunks, written position by position
RECURSIVE NaiveJoinAt(_, _)
NaiveJoinAt(chunks, p) ==
    IF chunks = <<>> THEN "<end>"
    ELSE IF p <= Len(chunks[1].content) THEN chunks[1].content[p]
    ELSE IF Len(chunks) = 1 THEN "<end>"
    ELSE IF p <= Len(chunks[1].content) + 2 THEN "\n"
    ELSE NaiveJoinAt(Tail(chunks), p - Len(chunks[1].content) - 2)

RECURSIVE NaiveJoinLen(_)
NaiveJoinLen(chunks) ==
    IF chunks = <<>> THEN 0
    ELSE IF Len(chunks) = 1 THEN Len(chunks[1].content)
    ELSE Len(chunks[1].content) + 2 + NaiveJoinLen(Tail(chunks))

\* C4: build_context returns exactly the first max_length characters of the
\* chunk contents joined in the given order with a blank-line separator; its
\* length never exceeds max_length, the empty chunk list included.
C4_BuildContext ==
    Built =>
        /\ Len(fn_ret.context) <= fn_args.max_length
        /\ Len(fn_ret.context) =
              Min(fn_args.max_length, NaiveJoinLen(fn_args.chunks))
        /\ \A p \in 1..Len(fn_ret.context) :
              fn_ret.context[p] = NaiveJoinAt(fn_args.chunks, p)

\* a context was cut in the middle of the joined text of several chunks
C4_Witness ==
    /\ Built
    /\ Len(fn_args.chunks) >= 2
    /\ Len(fn_ret.context) = fn_args.max_length
    /\ NaiveJoinLen(fn_args.chunks) > fn_args.max_length
    /\ fn_args.max_length > Len(fn_args.chunks[1].content) + 2

(***************************************************************************)
(* Properties of the conversation pipeline                                 *)
(***************************************************************************)
Running == inv.pc # "idle"
Retrieved == inv.pc \in {"llm_generate", "followup", END}
Order == <<"rag_retrieve", "llm_generate", "followup">>
Stored(t) == load_messages(ckpt, t, 0)

\* C3: after RETRIEVE, an empty retrieved-chunk set has use_chunks = false
\* when the invocation has no document id; with a document id use_chunks is
\* true (reason "document_based_conversation", max_similarity 0).
C3_EmptyChunksByDocument ==
    (Retrieved /\ inv.state.retrieved_chunks = <<>>) =>
        /\ inv.state.use_chunks = TruthyId(inv.state.document_id)
        /\ inv.state.max_similarity = 0
        /\ inv.state.decision_reason =
              IF TruthyId(inv.state.document_id)
              THEN "document_based_conversation" ELSE "no_relevant_chunks"

\* RETRIEVE ran for a document without chunks
C3_Witness ==
    /\ Retrieved
    /\ inv.state.document_id = "d2"
    /\ inv.state.retrieved_chunks = <<>>
    /\ inv.state.use_chunks = TRUE

\* C3 as stated: an empty retrieved-chunk set always has use_chunks = false.
C3_Original ==
    (Retrieved /\ inv.state.retrieved_chunks = <<>>) =>
        inv.state.use_chunks = FALSE

\* C5: after RETRIEVE, use_chunks = false means the context of the state is
\* the empty string, GENERATE then sends the bare question and FOLLOWUP gets
\* the empty context; the context is non-empty only if use_chunks is true.
C5_NoChunksNoContext ==
    Retrieved =>
        /\ ~inv.state.use_chunks => get(inv.state, "context", <<>>) = <<>>
        /\ get(inv.state, "context", <<>>) # <<>> => inv.state.use_chunks
        /\ (~inv.state.use_chunks /\ inv.sent # EmptyDict) =>
              inv.sent.messages[Len(inv.sent.messages)] =
                  HumanMessage(inv.state.question)
        /\ (~inv.state.use_chunks /\ inv.followup_sent # EmptyDict) =>
              inv.followup_sent.context = <<>>

\* an invocation without chunks has run to END on a thread whose checkpoint
\* held the context of an earlier, document-bound turn
C5_Witness ==
    /\ inv.pc = END
    /\ ~inv.state.use_chunks
    /\ get(inv.before.channel_values, "context", <<>>) # <<>>
    /\ inv.followup_sent.context = <<>>

\* C6: an invocation runs rag_retrieve, llm_generate, followup, in that
\* order and each once, entering at rag_retrieve; END is reached only after
\* followup, and an invocation that returns has run all three.
C6_StageOrder ==
    /\ Running =>
          /\ Len(inv.trace) <= 3
          /\ inv.trace = SubSeq(Order, 1, Len(inv.trace))
          /\ inv.pc = IF Len(inv.trace) = 3 THEN END
                      ELSE Order[Len(inv.trace) + 1]
    /\ outcome.status = "returned" => outcome.trace = Order
    /\ outcome.status = "raised" =>
          /\ Len(outcome.trace) < 3
          /\ outcome.trace = SubSeq(Order, 1, Len(outcome.trace))
          /\ outcome.at = Order[Len(outcome.trace) + 1]

\* an invocation has returned
C6_Witness ==
    /\ outcome.status = "returned"
    /\ outcome.trace = Order
    /\ ~Running

\* C7: after n calls of run_conversation on a thread, all of them returned,
\* the thread stores 2n messages: message 2k-1 is the human message with
\* question k, message 2k the assistant message with answer k.
C7_TwoMessagesPerTurn ==
    \A t \in Threads :
        ((Running => inv.thread # t) /\ hist.raised[t] = 0) =>
            /\ Len(Stored(t)) = 2 * hist.returned[t]
            /\ Len(hist.generated[t]) = hist.returned[t]
            /\ \A k \in 1..hist.returned[t] :
                  /\ Stored(t)[2 * k - 1] =
                        HumanMessage(hist.generated[t][k].question)
                  /\ Stored(t)[2 * k] =
                        AIMessage(hist.generated[t][k].answer)

\* two calls on one thread have returned, with different questions
C7_Witness ==
    \E t \in Threads :
        /\ ~Running
        /\ hist.raised[t] = 0
        /\ hist.returned[t] = 2
        /\ Len(Stored(t)) = 4
        /\ Stored(t)[1].content # Stored(t)[3].content

C9_HumanTurnIsRawQuestion ==
    \A t \in DOMAIN ckpt :
        \A i \in 1..Len(Stored(t)) :
            Stored(t)[i].type = "human" =>
                /\ Stored(t)[i].content =
                      hist.generated[t][(i + 1) \div 2].question
                /\ Stored(t)[i].content \in Questions
                /\ \A j \in 1..Len(Stored(t)[i].content) :
                      Stored(t)[i].content[j]
                          \notin {ContextHeader, QuestionHeader}

\* GENERATE sent the question behind the context block and the turn is stored
C9_Witness ==
    /\ inv.pc = "followup"
    /\ inv.sent.messages[Len(inv.sent.messages)].content[1] = ContextHeader
    /\ Len(inv.sent.messages) = 3
    /\ Stored(inv.thread)[Len(Stored(inv.thread)) - 1] =
          HumanMessage(inv.state.question)

\* C10: when RETRIEVE or GENERATE raises, no checkpoint is written for the
\* invocation: the thread's checkpoint after the failure is the one from
\* before the invocation.
C10_Original ==
    (~Running /\ outcome.status = "raised"
        /\ outcome.at \in {"rag_retrieve", "llm_generate"}) =>
        aget_tuple(ckpt, outcome.thread) = outcome.before

\* what does hold when RETRIEVE or GENERATE raises: the stored message list
\* is the one from before the invocation
C10_MessagesKept ==
    (~Running /\ outcome.status = "raised"
        /\ outcome.at \in {"rag_retrieve", "llm_generate"}) =>
        Stored(outcome.thread) = messages_of(outcome.before.channel_values)

\* a provider output of the follow-up generator has a parsable question when
\* one of its marked pieces is not blank
Parsable(output) ==
    \E i \in 1..Len(output) :
        output[i].tagged /\ \E j \in 1..Len(output[i].text) :
                                output[i].text[j] \notin Whitespace

\* C11: when the follow-up provider output holds no parsable question, the
\* invocation still returns: the result carries the generated answer and an
\* empty follow_up_questions list, and the thread's stored messages are the
\* ones it had before followed by the turn's human and assistant messages.
C11_FollowupParseFailure ==
    (~Running /\ outcome.status = "returned"
        /\ ~Parsable(hist.followup_output)) =>
        LET turn == hist.generated[outcome.thread]
                        [Len(hist.generated[outcome.thread])]
        IN /\ outcome.result.follow_up_questions = <<>>
           /\ outcome.result.answer = turn.answer
           /\ Stored(outcome.thread) =
                  messages_of(outcome.before.channel_values)
                    \o <<HumanMessage(outcome.question),
                         AIMessage(turn.answer)>>

\* an invocation whose follow-up output had no parsable question returned,
\* on a thread that already held a turn
C11_Witness ==
    /\ ~Running
    /\ outcome.status = "returned"
    /\ ~Parsable(hist.followup_output)
    /\ hist.followup_output # <<>>
    /\ messages_of(outcome.before.channel_values) # <<>>

\* the positions of the provider output that hold a parsed, non-blank entry
ParsedAt(output) ==
    {i \in 1..Len(output) :
        output[i].tagged /\ \E j \in 1..Len(output[i].text) :
                                output[i].text[j] \notin Whitespace}

\* the j-th smallest element of a set of positions
Nth(positions, j) ==
    CHOOSE i \in positions : Cardinality({x \in positions : x <= i}) = j

\* C12: generate_follow_up_questions returns the first min(num_questions, k)
\* of the k non-blank parsed entries of the provider output, trimmed and in
\* their order: never more than num_questions entries, none blank, none that
\* was not parsed from the output.
C12_FollowUpQuestions ==
    ("questions" \in DOMAIN fn_ret) =>
        LET at == ParsedAt(fn_args.output)
            questions == fn_ret.questions
        IN /\ Len(questions) = Min(fn_args.num_questions, Cardinality(at))
           /\ Len(questions) <= fn_args.num_questions
           /\ \A j \in 1..Len(questions) :
                 /\ questions[j] = strip(fn_args.output[Nth(at, j)].text)
                 /\ questions[j] # <<>>

\* the parser has been called with the pipeline's num_questions on an output
\* that holds more non-blank entries than that
C12_Witness ==
    /\ "questions" \in DOMAIN fn_ret
    /\ fn_args.num_questions = num_questions
    /\ Cardinality(ParsedAt(fn_args.output)) > num_questions
    /\ fn_ret.questions # <<>>

\* C13 (as claimed): after clear_conversation on a thread, load_messages
\* returns the empty list and get_message_count 0, and the next invocation on
\* the thread, when it returns, leaves exactly 2 stored messages.
\* clear_conversation stores its checkpoint under the id "", below the ids of
\* the checkpoints the thread already has, so the thread's latest checkpoint
\* and its messages stay what they were.
C13_Original ==
    /\ (~Running /\ outcome.status = "cleared") =>
           /\ load_messages(ckpt, outcome.thread, 5) = <<>>
           /\ get_message_count(ckpt, outcome.thread) = 0
    /\ (~Running /\ outcome.status = "returned"
          /\ hist.cleared[outcome.thread] >= 0
          /\ hist.returned[outcome.thread] + hist.raised[outcome.thread]
                = hist.cleared[outcome.thread] + 1) =>
           get_message_count(ckpt, outcome.thread) = 2

\* C14 (as claimed): every checkpoint written for a thread carries a version
\* not lower than the versions written before it for the thread, and the
\* last write is the checkpoint aget_tuple returns.
\* The checkpoint of clear_conversation has the id "", lower than the id of
\* every checkpoint an invocation has written.
C14_Original ==
    /\ (outcome.status = "cleared") =>
           /\ outcome.written.id >= outcome.before.id
           /\ aget_tuple(ckpt, outcome.thread) = outcome.written
    /\ (~Running /\ outcome.status \in {"returned", "raised"}) =>
           aget_tuple(ckpt, outcome.thread).id
              = outcome.before.id + outcome.puts

Started(r) == reqs[r].phase # "new" /\ "before" \in DOMAIN reqs[r]
Executing(r) == reqs[r].phase = "running"
Ended(r, status) == reqs[r].phase = "done" /\ reqs[r].status = status

\* C15 (as claimed): at most one invocation of a thread is executing at any
\* time, so two requests on one conversation never read the same prior
\* checkpoint, and when both have returned the thread holds both turns.
\* process_user_message awaits run_conversation without a lock or a queue:
\* two requests on one conversation execute together.
C15_Original ==
    \A r1, r2 \in Requests :
        (r1 # r2 /\ Started(r1) /\ Started(r2)
            /\ reqs[r1].thread = reqs[r2].thread) =>
            /\ ~(Executing(r1) /\ Executing(r2))
            /\ reqs[r1].before # reqs[r2].before
            /\ (Ended(r1, "returned") /\ Ended(r2, "returned")) =>
                  get_message_count(ckpt, reqs[r1].thread) = 4

FatalKinds == {"EmbeddingFailure", "RetrievalFailure", "GenerationFailure"}

\* C16: when an embedding, retrieval or generation failure is raised inside
\* a request's invocation, process_user_message raises that same error and
\* the database holds no Message row of the request, neither the user's nor
\* the assistant's, and no timestamp update by it.
C16_FailureCommitsNothing ==
    \A r \in Requests :
        (Ended(r, "raised") /\ reqs[r].error.kind \in FatalKinds) =>
            /\ reqs[r].raised = reqs[r].error
            /\ \A i \in 1..Len(db.messages) : db.messages[i].id[1] # r
            /\ db.conversations[reqs[r].thread].updated_at # r

\* a request has failed in generation after another request of the same
\* conversation has committed its turn
C16_Witness ==
    \E r1, r2 \in Requests :
        /\ Ended(r1, "raised")
        /\ reqs[r1].error.kind = "GenerationFailure"
        /\ Ended(r2, "returned")
        /\ Len(db.messages) = 2
        /\ db.conversations[reqs[r1].thread].updated_at = r2

\* what a request reports of its failure: the response to the client and
\* the log statement, without the exception text
Reported(r) ==
    [response |-> reqs[r].response,
     logged |-> [i \in 1..Len(reqs[r].logged) |->
                    [level |-> reqs[r].logged[i].level,
                     format |-> reqs[r].logged[i].format]]]

\* C17 (as claimed): a checkpoint write failure after GENERATE has succeeded
\* ends the request with an error, and what is reported of it differs from
\* what is reported of a generation failure.
\* One except clause logs every exception with one statement and send_message
\* answers every exception but ValueError with the same response.
C17_Original ==
    \A r1, r2 \in Requests :
        (Ended(r1, "raised")
            /\ reqs[r1].error.kind = "CheckpointWriteFailure"
            /\ reqs[r1].error.at \in {"llm_generate", "followup"}) =>
            /\ reqs[r1].response.status_code >= 400
            /\ (Ended(r2, "raised")
                  /\ reqs[r2].error.kind = "GenerationFailure") =>
                  Reported(r1) # Reported(r2)

\* C18 (as claimed): RETRIEVE runs the vector retriever in every invocation,
\* over the whole corpus on an open thread, and decides on the chunks it
\* found: an open-thread invocation whose best corpus chunk has a similarity
\* of at least the threshold ends RETRIEVE with use_chunks = true, the reason
\* "relevant_chunks_found" and a non-empty context.
\* rag_retrieve_node queries only when the state has a document id and takes
\* the empty chunk list otherwise.
C18_Original ==
    (Retrieved /\ ~TruthyId(get(inv.state, "document_id", None))) =>
        LET found == retrieve_chunks_for_document(
                         get_query_embedding(inv.state.question), None, top_k)
        IN /\ \E chunks \in found :
                 Len(inv.state.retrieved_chunks) = Len(chunks)
           /\ (\A chunks \in found :
                 /\ chunks # <<>>
                 /\ chunks[1].similarity >= similarity_threshold) =>
                 /\ inv.state.use_chunks = TRUE
                 /\ inv.state.decision_reason = "relevant_chunks_found"
                 /\ inv.state.context # <<>>

\* C19 (as claimed): the input GENERATE sends to the generator holds, before
\* the new human message, at most a fixed window of prior history messages,
\* however many turns the thread has accumulated.
\* llm_generate_node sends the whole stored message list.
C19_Original ==
    (Running /\ inv.sent # EmptyDict) =>
        Len(inv.sent.messages) - 1 <= history_window

\* the variant the claim gives for (document id present, context non-empty
\* after trimming)
VariantFor(document_id, context) ==
    IF document_id \notin {None, ""} THEN "document_grounded"
    ELSE IF \E j \in 1..Len(context) : context[j] \notin Whitespace
         THEN "general_with_context"
         ELSE "general_without_context"

HelperOf ==
    [document_grounded |-> "get_document_rag_context_response_prompt",
     general_with_context |-> "get_general_context_conversation_prompt",
     general_without_context |-> "get_general_conversation_prompt"]

\* C20: GENERATE selects exactly one of the three prompt variants, by the
\* presence of a document id and the non-emptiness of the trimmed context
\* only: document-grounded with a document id whatever the context,
\* general-with-context without one and with context, general-without-context
\* otherwise; the user level does not enter the choice.
C20_PromptVariant ==
    /\ ("sent" \in DOMAIN fn_ret) =>
          fn_ret.sent.prompt
             = VariantFor(fn_args.document_id, fn_args.context)
    /\ ("helper" \in DOMAIN fn_ret) =>
          fn_ret.helper
             = HelperOf[VariantFor(fn_args.document_id, fn_args.context)]

\* the selection has run for a state without document id whose context is
\* blank but not empty, at a user level other than the default
C20_Witness ==
    /\ "sent" \in DOMAIN fn_ret
    /\ "helper" \in DOMAIN fn_ret
    /\ fn_args.document_id = None
    /\ fn_args.context = <<" ", " ">>
    /\ fn_args.user_level = "ADVANCED"
    /\ fn_ret.sent.prompt = "general_without_context"

\* part occurs in text as a run of consecutive characters
Contains(text, part) ==
    \E k \in 0..(Len(text) - Len(part)) :
        \A j \in 1..Len(part) : text[k + j] = part[j]

NonBlank(text) == \E j \in 1..Len(text) : text[j] \notin Whitespace

\* C21 (as claimed): whenever the context is not blank at GENERATE, what is
\* sent to the generator holds the context text and the question, in the
\* human message llm_generate_node composes and in the prompt text of every
\* helper generate_conversation_answer selects with a context.
\* get_general_context_conversation_prompt fills GENERAL_CONVERSATION_PROMPT,
\* which has no field for the context: the context is left out.
C21_Original ==
    NonBlank(fn_args.context) =>
        /\ ("sent" \in DOMAIN fn_ret) =>
              LET content ==
                    fn_ret.sent.messages[Len(fn_ret.sent.messages)].content
              IN /\ Contains(content, fn_args.context)
                 /\ Contains(content, fn_args.question)
        /\ ("prompt_text" \in DOMAIN fn_ret) =>
              /\ Contains(fn_ret.prompt_text, fn_args.context)
              /\ Contains(fn_ret.prompt_text, fn_args.question)

\* the part of C21 that holds: the human message llm_generate_node sends
C21_GraphSendsContext ==
    (NonBlank(fn_args.context) /\ "sent" \in DOMAIN fn_ret) =>
        Contains(fn_ret.sent.messages[Len(fn_ret.sent.messages)].content,
                 fn_args.context)

\* the collaborators in the order the pipeline reaches them
CallOrder == <<"embedder", "retriever", "generator", "followup_generator">>
PositionOf(c) == CHOOSE i \in 1..Len(CallOrder) : CallOrder[i] = c

\* C22: within one invocation every external collaborator is called at most
\* once; when a call raises, the invocation raises, the call is not made
\* again and no collaborator after it is called.
C22_NoRetry ==
    /\ Running => \A c \in Collaborators : inv.calls[c] <= 1
    /\ (outcome.status \in {"returned", "raised"}) =>
          \A c \in Collaborators : outcome.calls[c] <= 1
    /\ (outcome.status = "raised") =>
          /\ outcome.calls[outcome.failed] = 1
          /\ \A c \in Collaborators :
                PositionOf(c) > PositionOf(outcome.failed) =>
                    outcome.calls[c] = 0
          /\ \A i \in 1..Len(outcome.trace) : outcome.trace[i] # outcome.at

\* an invocation has raised in the answer generator after the embedder and
\* the retriever were called once each
C22_Witness ==
    /\ outcome.status = "raised"
    /\ outcome.failed = "generator"
    /\ outcome.calls["embedder"] = 1
    /\ outcome.calls["retriever"] = 1
    /\ outcome.calls["generator"] = 1

\* the chunks the call searches: the document's when a document id is given,
\* the whole table otherwise
Searched ==
    IF fn_args.document_id \in {None, ""} THEN document_chunks
    ELSE {r \in document_chunks : r.document_id = fn_args.document_id}

\* C23: retrieve_chunks_for_document returns at most top_k chunks of the
\* searched set, each once, with similarity = 1 - distance, in order of
\* non-increasing similarity, and no chunk left out is nearer than a chunk
\* returned; it returns top_k chunks when the searched set has that many and
\* the empty sequence when nothing matches.
C23_RetrieveTopK ==
    ("rows" \in DOMAIN fn_ret) =>
        LET rows == fn_ret.rows
            ids == {rows[i].id : i \in 1..Len(rows)}
        IN /\ Len(rows) <= fn_args.top_k
           /\ Len(rows) = Min(fn_args.top_k, Cardinality(Searched))
           /\ Cardinality(ids) = Len(rows)
           /\ \A i \in 1..Len(rows) :
                 \E r \in Searched :
                     /\ r.id = rows[i].id
                     /\ rows[i].document_id = r.document_id
                     /\ rows[i].content = r.content
                     /\ rows[i].similarity
                          = 100 - distance(r, fn_args.embedding)
           /\ \A i, j \in 1..Len(rows) :
                 i < j => rows[i].similarity >= rows[j].similarity
           /\ \A r \in Searched :
                 r.id \notin ids =>
                     \A i \in 1..Len(rows) :
                         rows[i].similarity
                           >= 100 - distance(r, fn_args.embedding)
           /\ (Searched = {}) => rows = <<>>

\* the call has returned the three nearest of the four chunks of a document
C23_Witness ==
    /\ "rows" \in DOMAIN fn_ret
    /\ fn_args.document_id = "d1"
    /\ fn_args.top_k = 3
    /\ Len(fn_ret.rows) = 3
    /\ fn_ret.rows[1].id = "k1"

\* the provider output has no marked entry and at least one non-blank line
\* outside the marks
OnlyLines(output) ==
    /\ \A i \in 1..Len(output) : ~output[i].tagged
    /\ \E i \in 1..Len(output) : NonBlank(output[i].text)

\* the non-blank lines of an output, trimmed, in order
LinesOf(output) ==
    LET at == {i \in 1..Len(output) : NonBlank(output[i].text)}
    IN [j \in 1..Cardinality(at) |-> strip(output[Nth(at, j)].text)]

\* C24 (as claimed): on an output without marked entries but with non-blank
\* lines, the parser returns those lines, trimmed and truncated to
\* num_questions.
C24_Original ==
    ("questions" \in DOMAIN fn_ret /\ OnlyLines(fn_args.output)) =>
        fn_ret.questions
           = SlicePrefix(LinesOf(fn_args.output), fn_args.num_questions)

\* C24 (amended): on an output without marked entries the parser returns the
\* empty list, whatever lines the output holds: only <question> entries are
\* parsed, there is no newline-delimited fallback.
C24_NoFallback ==
    ("questions" \in DOMAIN fn_ret /\ OnlyLines(fn_args.output)) =>
        fn_ret.questions = <<>>

\* the parser has been called with the pipeline's num_questions on an output
\* of two non-blank lines without marks
C24_Witness ==
    /\ "questions" \in DOMAIN fn_ret
    /\ OnlyLines(fn_args.output)
    /\ Len(LinesOf(fn_args.output)) = 2
    /\ fn_args.num_questions = num_questions
    /\ fn_ret.questions = <<>>

\* the state keys the per-turn fields of the result are read from
PerTurnKeys ==
    {"answer", "follow_up_questions", "retrieved_chunks", "max_similarity",
     "decision_reason", "token_usage"}

\* C25: every per-turn field of the result of a run_conversation call that
\* returned (answer, follow_up_questions, cited_chunks, chunks_used,
\* max_similarity, decision_reason, token_usage) is the value a stage of this
\* invocation has computed, not one restored from the thread's checkpoint.
C25_FieldsAreFresh ==
    (~Running /\ outcome.status = "returned") =>
        LET computed == outcome.computed
            result == outcome.result
        IN /\ PerTurnKeys \subseteq DOMAIN computed
           /\ result.answer = get(computed, "answer", None)
           /\ result.follow_up_questions
                = get(computed, "follow_up_questions", None)
           /\ result.token_usage = get(computed, "token_usage", None)
           /\ LET chunks == get(computed, "retrieved_chunks", <<>>)
              IN /\ result.cited_chunks
                      = [i \in 1..Len(chunks) |-> chunks[i].id]
                 /\ result.reference_context.chunks_used = Len(chunks)
           /\ result.reference_context.max_similarity
                = get(computed, "max_similarity", None)
           /\ result.reference_context.decision_reason
                = get(computed, "decision_reason", None)

\* an invocation without document id has returned on a thread whose
\* checkpoint held the chunks and the decision of a document-bound turn
C25_Witness ==
    /\ ~Running
    /\ outcome.status = "returned"
    /\ get(outcome.before.channel_values, "retrieved_chunks", <<>>) # <<>>
    /\ get(outcome.before.channel_values, "decision_reason", <<>>)
         = "document_based_conversation"
    /\ outcome.result.cited_chunks = <<>>
    /\ outcome.result.reference_context.decision_reason = "no_relevant_chunks"

\* the committed Message rows of a conversation, in commit order
RowsOf(t) == SelectSeq(db.messages, LAMBDA row : row.conversation_id = t)

RoleOf == [human |-> "user", ai |-> "assistant"]

\* C26 (as claimed): when no request is executing, the messages of a
\* thread's checkpoint and the committed Message rows of the conversation
\* agree: as many, with the same roles and contents in the same order.
\* A request that fails after llm_generate has checkpointed the turn (in
\* FOLLOWUP, or at the commit) leaves two messages without rows.
C26_Original ==
    (\A r \in Requests : ~Executing(r)) =>
        \A t \in Threads :
            LET messages == load_messages(ckpt, t, 0)
                rows == RowsOf(t)
            IN /\ Len(messages) = Len(rows)
               /\ \A i \in 1..Min(Len(messages), Len(rows)) :
                     /\ rows[i].role = RoleOf[messages[i].type]
                     /\ rows[i].content = messages[i].content

\* the conversations table has no row with this id and this owner
NotFound(conversation_id, user_id) ==
    \/ conversation_id \notin DOMAIN db.conversations
    \/ db.conversations[conversation_id].user_id # user_id

\* C27: a request on a conversation id that has no row, or whose row belongs
\* to another user, ends in its first step with ValueError("Conversation not
\* found") and the response 404: run_conversation has not started (the
\* request holds no checkpoint read and no graph state), no checkpoint of any
\* thread is written, and the database is as before.
C27_NotFoundBeforePipeline ==
    [][\A r \in Requests :
          (/\ reqs[r].phase = "new"
           /\ reqs'[r].phase # "new"
           /\ NotFound(reqs'[r].thread, reqs'[r].user_id)) =>
              /\ reqs'[r].phase = "done"
              /\ reqs'[r].status = "raised"
              /\ reqs'[r].raised.kind = "ValueError"
              /\ str(reqs'[r].raised) = <<"Conversation not found">>
              /\ reqs'[r].response =
                    [status_code |-> 404,
                     detail |-> <<"Conversation not found">>]
              /\ DOMAIN reqs'[r] \cap {"before", "state", "pc"} = {}
              /\ ckpt' = ckpt
              /\ inv' = inv
              /\ db' = db]_vars

\* one request was made on an existing conversation by a user who does not
\* own it and one on an id without a row, while the owner's checkpoint and
\* rows exist
C27_Witness ==
    /\ reqs["r1"].phase = "done"
    /\ reqs["r1"].thread = "c1"
    /\ reqs["r1"].user_id = "u2"
    /\ reqs["r1"].raised.kind = "ValueError"
    /\ reqs["r2"].phase = "done"
    /\ reqs["r2"].thread = "c0"
    /\ reqs["r2"].raised.kind = "ValueError"

\* the threads a step acts on: the thread of a worker whose run has moved
\* and the thread of a clear that has just been made
ActedOn ==
    {reqs'[r].thread : r \in {w \in Requests :
                                 reqs'[w] # reqs[w] /\ reqs'[w] # New}}
      \cup {reqs[r].thread : r \in {w \in Requests :
                                 reqs'[w] # reqs[w] /\ reqs[w] # New}}
      \cup (IF outcome' # outcome THEN {outcome'.thread} ELSE {})

\* C28: a step of run_conversation or clear_conversation on one thread
\* leaves the checkpoint of every other thread (id, step, messages and
\* scalar fields) as it was, and the human messages of a thread's checkpoint
\* are questions asked on that thread, its conversation_id the thread's own.
C28_ThreadIsolation ==
    [][\A t \in ThreadIds :
          /\ t \notin ActedOn => aget_tuple(ckpt', t) = aget_tuple(ckpt, t)
          /\ LET values == aget_tuple(ckpt', t).channel_values
                 messages == messages_of(values)
             IN /\ \A i \in 1..Len(messages) :
                      messages[i].type = "human" =>
                          messages[i].content \in hist'.asked[t]
                /\ "conversation_id" \in DOMAIN values =>
                      values.conversation_id = t]_vars

\* thread c2 holds a finished turn of question q2 only, while a run on c1
\* with question q1 has generated its answer and c1 has been cleared
C28_Witness ==
    /\ hist.asked = [c1 |-> {<<"q", "1">>}, c2 |-> {<<"q", "2">>}]
    /\ Len(load_messages(ckpt, "c2", 0)) = 2
    /\ Len(load_messages(ckpt, "c1", 0)) = 2
    /\ \E r \in Requests : reqs[r] # New /\ reqs[r].thread = "c1"
    /\ outcome.status = "cleared"
    /\ outcome.thread = "c1"

\* graph g of m is compiled with the checkpointer _checkpointer refers to,
\* which is made on the pool _pool refers to, and that pool is open
BoundToCurrent(m, g) ==
    /\ m._checkpointer # <<>>
    /\ m._pool # <<>>
    /\ m.graphs[g].checkpointer = m._checkpointer
    /\ m.checkpointers[m._checkpointer[1]].pool = m._pool
    /\ ~m.pools[m._pool[1]].closed

\* every pool but the one _pool refers to is closed, every checkpointer but
\* the one _checkpointer refers to is on a closed pool, and every graph but
\* the one _conversation_graph refers to has a checkpointer on a closed pool
MadeOnce(m) ==
    /\ \A p \in 1..Len(m.pools) : m._pool # <<p>> => m.pools[p].closed
    /\ \A k \in 1..Len(m.checkpointers) :
          m._checkpointer # <<k>> =>
              m.pools[m.checkpointers[k].pool[1]].closed
    /\ \A g \in 1..Len(m.graphs) :
          m._conversation_graph # <<g>> =>
              m.pools[m.checkpointers[
                  m.graphs[g].checkpointer[1]].pool[1]].closed

\* C29: in every call of a sequence of calls, get_conversation_graph raises
\* RuntimeError exactly when no init has completed since the last close and
\* otherwise returns the graph that is bound to the open pool and its
\* checkpointer; an init on the initialized system makes nothing, and no
\* second open pool, checkpointer or graph ever exists; close leaves the
\* three globals None and every pool closed, and the init after it makes a
\* pool, a checkpointer and a graph that did not exist before.
C29_Lifecycle ==
    [][\A c \in Callers :
          /\ caller_get_conversation_graph(c) =>
                LET result == callers'[c].result
                IN /\ ("raised" \in DOMAIN result) <=> ~hist.initialized
                   /\ "raised" \in DOMAIN result =>
                         result.raised = "RuntimeError"
                   /\ "returned" \in DOMAIN result =>
                         /\ result.returned = memory._conversation_graph
                         /\ BoundToCurrent(memory, result.returned[1])
          /\ (caller_init_checkpoint_system(c) /\ hist.initialized) =>
                memory' = memory
          /\ (caller_init_checkpoint_system(c) /\ memory._pool = <<>>) =>
                /\ memory'._pool = <<Len(memory.pools) + 1>>
                /\ memory'._checkpointer = <<Len(memory.checkpointers) + 1>>
                /\ memory'._conversation_graph = <<Len(memory.graphs) + 1>>
                /\ BoundToCurrent(memory', memory'._conversation_graph[1])
          /\ caller_close_checkpoint_system(c) =>
                /\ memory'._pool = <<>>
                /\ memory'._checkpointer = <<>>
                /\ memory'._conversation_graph = <<>>
                /\ \A p \in 1..Len(memory'.pools) : memory'.pools[p].closed
          /\ MadeOnce(memory')]_vars

\* the system has been initialized, closed and initialized again: one caller
\* was refused the graph while it was closed, the other holds the second
\* graph, after a repeated init
C29_Witness ==
    /\ hist.initialized
    /\ Len(memory.pools) = 2
    /\ Len(memory.graphs) = 2
    /\ memory.pools[1].closed
    /\ callers["t1"] = [pc |-> "idle", fn |-> "get_conversation_graph",
                        result |-> [raised |-> "RuntimeError"]]
    /\ callers["t2"] = [pc |-> "idle", fn |-> "get_conversation_graph",
                        result |-> [returned |-> <<2>>]]

\* the call of caller c ends in this step and returns an object
Handed(c) ==
    /\ callers'[c] # callers[c]
    /\ callers'[c].pc = "idle"
    /\ "returned" \in DOMAIN callers'[c].result
    /\ callers'[c].result.returned # <<>>

\* C30 (as claimed): with callers interleaving at the await of setup(), at
\* most one pool, one checkpointer and one graph are made, and a caller that
\* is handed the checkpointer, or a graph, gets one whose checkpointer has
\* completed its setup().
\* _checkpointer is assigned before setup() is awaited: a second caller finds
\* it set and is handed it, or compiles the graph with it, while the first
\* is still suspended in setup().
C30_Original ==
    [][/\ Len(memory'.pools) <= 1
       /\ Len(memory'.checkpointers) <= 1
       /\ Len(memory'.graphs) <= 1
       /\ \A c \in Callers :
             Handed(c) =>
                LET object == callers'[c].result.returned[1]
                    checkpointer ==
                        IF callers'[c].fn = "get_checkpointer" THEN object
                        ELSE memory'.graphs[object].checkpointer[1]
                IN memory'.checkpointers[checkpointer].setup = "done"]_vars

====
